---- MODULE Spec2Model ----
(***************************************************************************)
(* Unical: a registry that dispatches calendar calls to named connectors,  *)
(* and the connectors' credential handling.                                *)
(*                                                                         *)
(* Strings that the code inspects character by character (connector names) *)
(* are sequences of one-character strings; the JavaScript value undefined  *)
(* is the one-element sequence <<"undefined">> where a name is expected    *)
(* and the string "undefined" where an opaque value is expected.           *)
(***************************************************************************)
EXTENDS Integers, Sequences, FiniteSets, TLC

VARIABLES connectors, useLog, lastOp, auth, calls, now, outcome, instances

regVars == <<connectors, useLog, lastOp>>

connVars == <<auth, calls, now>>

vars == <<connectors, useLog, lastOp, auth, calls, now, outcome, instances>>

-----------------------------------------------------------------------------
(* Bounds *)

MaxUse == 2

MaxCalls == 2

MaxTicks == 1

\* items in an upstream list answer
MaxItems == 2

-----------------------------------------------------------------------------
(* Values *)

UndefinedName == <<"undefined">>

EmptyName == <<>>

Undefined == "undefined"

\* connector names: three spellings of "ab", and "b"
Names == {<<"a", "b">>, <<"A", "b">>, <<"A", "B">>, <<"b">>}

NameInputs == Names \cup {EmptyName, UndefinedName}

\* String.prototype.toLowerCase, one character
toLowerChar(c) == IF c = "A" THEN "a" ELSE IF c = "B" THEN "b" ELSE c

\* String.prototype.toLowerCase
toLowerCase(s) == [i \in 1..Len(s) |-> toLowerChar(s[i])]

\* JavaScript truthiness of a string-or-undefined value
Truthy(s) == s # UndefinedName /\ s # EmptyName

-----------------------------------------------------------------------------
(* Connector objects, as the registry sees them *)

Kinds == {"full", "partial"}

NullConnector == [name |-> UndefinedName, kind |-> "null"]

ConnectorInputs == [name : NameInputs, kind : Kinds] \cup {NullConnector}

\* function-valued members a connector class defines
OwnMethods(connector) ==
    IF connector.kind = "full"
    THEN {"listCalendars", "listEvents", "getEvent",
          "refreshAuthCredentials", "revokeAuthCredentials"}
    ELSE {"listCalendars"}

\* data members the constructor sets
Fields(connector) == {"name", "clientId"}

\* function-valued members inherited from EventEmitter
Inherited(connector) == {"emit"}

MethodNames == {"listCalendars", "listEvents", "getEvent",
                "refreshAuthCredentials", "revokeAuthCredentials",
                "name", "emit", "bogus"}

\* the JavaScript `in` operator: own and inherited members alike
In(methodName, connector) ==
    methodName \in OwnMethods(connector) \cup Fields(connector) \cup Inherited(connector)

IsCallable(methodName, connector) ==
    methodName \in OwnMethods(connector) \cup Inherited(connector)

-----------------------------------------------------------------------------
(* Map (insertion ordered), as used for this[connectors] *)

MapHas(m, k) == \E i \in 1..Len(m) : m[i].key = k

MapIndex(m, k) == CHOOSE i \in 1..Len(m) : m[i].key = k

MapGet(m, k) == m[MapIndex(m, k)].value

\* Map.set that leaves an existing entry alone
MapSet_KeepFirst(m, k, v) ==
    IF MapHas(m, k) THEN m ELSE Append(m, [key |-> k, value |-> v])

MapSet(m, k, v) ==
    IF MapHas(m, k)
    THEN [m EXCEPT ![MapIndex(m, k)] = [key |-> k, value |-> v]]
    ELSE Append(m, [key |-> k, value |-> v])

MapKeys(m) == [i \in 1..Len(m) |-> m[i].key]

-----------------------------------------------------------------------------
(* Outcomes of a registry operation *)

NoValue == <<Undefined>>

Throw(msg) == [kind |-> "throw", error |-> msg, value |-> NoValue, invoked |-> <<>>]

Return(v, invocations) ==
    [kind |-> "return", error |-> "", value |-> v, invoked |-> invocations]

ErrNoConnector == "Connector cannot be undefined"

ErrNoName == "Connector must have a name"

ErrNoConnectorName == "You should specify a connector name!"

ErrUnknownConnector == "Unknown connector"

ErrNotImplemented == "This connector does not implement"

ErrTypeError == "TypeError: connector[methodName] is not a function"

\* use without the check for a missing name
use_NoNameCheck(m, connector) ==
    IF connector = NullConnector
    THEN [map |-> m, result |-> Throw(ErrNoConnector)]
    ELSE IF connector.name = UndefinedName
    THEN [map |-> m, result |-> Throw(ErrTypeError)]
    ELSE [map |-> MapSet(m, toLowerCase(connector.name), connector),
          result |-> Return(NoValue, <<>>)]

\* Unical.use: the registry after the call, and the outcome
use(m, connector) ==
    IF connector = NullConnector
    THEN [map |-> m, result |-> Throw(ErrNoConnector)]
    ELSE IF ~Truthy(connector.name)
    THEN [map |-> m, result |-> Throw(ErrNoName)]
    ELSE [map |-> MapSet(m, toLowerCase(connector.name), connector),
          result |-> Return(NoValue, <<>>)]

\* listConnectors that reports the connectors' own names instead of the keys
listConnectors_OwnNames(m) == [i \in 1..Len(m) |-> m[i].value.name]

\* Unical.listConnectors
listConnectors(m) == MapKeys(m)

\* what a connector's method returns: a value that tells which connector ran
\* which method
StubReturn(connector, methodName) == <<methodName, connector.kind, connector.name>>

\* connector[methodName](auth, params, options, callback)
invokeMember(connector, methodName, args) ==
    IF IsCallable(methodName, connector)
    THEN Return(StubReturn(connector, methodName),
                <<[connector |-> connector, method |-> methodName, args |-> args,
                   returned |-> StubReturn(connector, methodName)]>>)
    ELSE Throw(ErrTypeError)

\* callMethod without the has() check: an unknown name reaches the member test
\* with an undefined connector
callMethod_NoHasCheck(m, connectorName, methodName, args) ==
    IF ~Truthy(connectorName)
    THEN Throw(ErrNoConnectorName)
    ELSE LET name == toLowerCase(connectorName)
         IN  IF ~MapHas(m, name)
             THEN Throw(ErrTypeError)
             ELSE LET connector == MapGet(m, name)
                  IN  IF ~In(methodName, connector)
                      THEN Throw(ErrNotImplemented)
                      ELSE invokeMember(connector, methodName, args)

\* callMethod that looks the name up as the caller spelled it
callMethod_CaseSensitive(m, connectorName, methodName, args) ==
    IF ~Truthy(connectorName)
    THEN Throw(ErrNoConnectorName)
    ELSE LET name == connectorName
         IN  IF ~MapHas(m, name)
             THEN Throw(ErrUnknownConnector)
             ELSE LET connector == MapGet(m, name)
                  IN  IF ~In(methodName, connector)
                      THEN Throw(ErrNotImplemented)
                      ELSE invokeMember(connector, methodName, args)

\* Unical.callMethod
callMethod(m, connectorName, methodName, args) ==
    IF ~Truthy(connectorName)
    THEN Throw(ErrNoConnectorName)
    ELSE LET name == toLowerCase(connectorName)
         IN  IF ~MapHas(m, name)
             THEN Throw(ErrUnknownConnector)
             ELSE LET connector == MapGet(m, name)
                  IN  IF ~In(methodName, connector)
                      THEN Throw(ErrNotImplemented)
                      ELSE invokeMember(connector, methodName, args)

\* the facade closures the constructor installs; a is the caller's argument
\* list after connectorName
calendars_list(m, connectorName, a) ==
    callMethod(m, connectorName, "listCalendars", <<a[1], a[2], a[3], a[4]>>)

events_list(m, connectorName, a) ==
    callMethod(m, connectorName, "listEvents", <<a[1], a[2], a[3], a[4]>>)

auth_refreshCredentialsIfExpired(m, connectorName, a) ==
    callMethod(m, connectorName, "refreshAuthCredentials",
               <<a[1], a[2], Undefined, Undefined>>)

auth_revokeCredentials(m, connectorName, a) ==
    callMethod(m, connectorName, "revokeAuthCredentials",
               <<a[1], a[2], Undefined, Undefined>>)

-----------------------------------------------------------------------------
(* Inputs of the registry operations *)

\* the caller's arguments after connectorName: (auth, params, options, callback)
\* for the list entries, (auth, callback) for the auth entries
ListArgs == {<<"auth1", "params1", "options1", "cb1">>}

AuthArgs == {<<"auth1", "cb1">>}

NoOp == [op |-> "none", connector |-> NullConnector, connectorName |-> UndefinedName,
         methodName |-> "", args |-> <<>>, result |-> Return(NoValue, <<>>),
         before |-> <<>>, listed |-> <<>>]

-----------------------------------------------------------------------------
(* Connectors: auth objects, time, upstream responses.                       *)
(* A Date is a one-element sequence holding milliseconds since the epoch; a  *)
(* missing date is the empty sequence.                                       *)

MsPerDay == 24 * 60 * 60 * 1000

HalfDay == MsPerDay \div 2

NoDate == <<>>

\* integer division that truncates towards zero, as Math.trunc does
TruncDiv(a, b) == IF a >= 0 THEN a \div b ELSE -((-a) \div b)

\* date-fns differenceInDays(dateLeft, dateRight): full days, truncated
differenceInDays(dateLeft, dateRight) == TruncDiv(dateLeft[1] - dateRight[1], MsPerDay)

\* date-fns fromUnixTime: seconds since the epoch to a Date
fromUnixTime(seconds) == <<seconds * 1000>>

\* Date.prototype.toISOString: the date as text
toISOString(date) == <<"ISO-8601", date[1]>>

NoClient == "no client"

\* the caller's auth object; client is the access token held by the Cronofy
\* client that CronofyConnector._prepareApiCall stores on the object
AuthInputs ==
    [access_token : {"at0", Undefined},
     refresh_token : {"rt0", Undefined},
     expiration_date : {<<k * HalfDay>> : k \in {-4, -3, 0, 3, 4}} \cup {NoDate},
     id : {"id1"},
     client : {NoClient}]

IdleAuth == [access_token |-> Undefined, refresh_token |-> Undefined,
             expiration_date |-> NoDate, id |-> "id1", client |-> NoClient]

\* the check without its refresh_token conjunct
AuthComplete_NoRefreshToken(a) ==
    a.access_token # Undefined /\ a.expiration_date # NoDate

\* the check the connectors make on an auth object
AuthComplete(a) ==
    a.access_token # Undefined /\ a.refresh_token # Undefined /\ a.expiration_date # NoDate

\* what the token endpoint answers: expiry_date is what google-auth-library
\* reports, expires_at what simple-oauth2 reports
ExchangeError == [err |-> TRUE, access_token |-> Undefined, refresh_token |-> Undefined,
                  expiry_date |-> 0, expires_at |-> NoDate]

ExchangeResponses ==
    {ExchangeError} \cup
    [err : {FALSE},
     access_token : {"at0", "at1", "at2"},
     refresh_token : {"rt0", "rt1", Undefined},
     expiry_date : {5 * 24 * 60 * 60},
     expires_at : {<<10 * HalfDay>>}]

\* what the calendar API answers to the primary call
PrimaryResponses == {"error", "empty", "items"}

\* what the backend answers to a revocation
RevokeResponses == {"error", "ok"}

NoPayload == [access_token |-> Undefined, refresh_token |-> Undefined,
              expiration_date |-> <<Undefined>>, id |-> Undefined]

\* one step a call has taken, in the order the code took it
Event(type, token, err, value, payload) ==
    [type |-> type, token |-> token, err |-> err, value |-> value, payload |-> payload]

ExchangeIssued(refreshToken) == Event("exchange", refreshToken, "", "", NoPayload)

Notified(payload) == Event("notify", "", "", "", payload)

\* the revocation request, with the token it carries
RevokeIssued(token) == Event("revoke", token, "", "", NoPayload)

\* the primary API call, with the access token it carries
PrimaryIssued(accessToken) == Event("primary", accessToken, "", "", NoPayload)

\* the caller's completion callback (or the promise settling): (err, value)
CalledBack(err, value) == Event("callback", "", err, value, NoPayload)

\* an exception that leaves the connector
Thrown(err) == Event("throw", "", err, "", NoPayload)

ErrMissingProperties == "Authentication object is missing properties"

ErrJsTypeError == "TypeError"

ErrUpstream == "upstream error"

AuthRef == "the auth object"

\* GoogleConnector._refreshTokenIfNeeded: the test that returns the auth
\* object without an exchange
Google_tokenStillValid(a, t) == differenceInDays(a.expiration_date, <<t>>) <= 1

\* CronofyConnector._refreshTokenIfNeeded: the same test
Cronofy_tokenStillValid(a, t) == differenceInDays(<<t>>, a.expiration_date) <= 1

\* GoogleConnector._tokensUpdated: the payload of newAccessToken
Google_tokensUpdated(newAuthObject) ==
    [access_token |-> newAuthObject.access_token,
     refresh_token |-> newAuthObject.refresh_token,
     expiration_date |-> toISOString(newAuthObject.expiration_date),
     id |-> newAuthObject.id]

\* CronofyConnector._tokensUpdated
Cronofy_tokensUpdated(newAuthObject) ==
    [access_token |-> newAuthObject.access_token,
     refresh_token |-> newAuthObject.refresh_token,
     expiration_date |-> toISOString(newAuthObject.expires_at),
     id |-> newAuthObject.id]

\* GoogleConnector._refreshTokenIfNeeded, the refreshAccessToken callback on
\* success: the auth object afterwards
Google_applyTokens(a, result) ==
    IF a.access_token # result.access_token
    THEN [a EXCEPT !.access_token = result.access_token,
                   !.refresh_token = result.refresh_token,
                   !.expiration_date = fromUnixTime(result.expiry_date)]
    ELSE a

\* and the events it adds
Google_applyTokensEvents(a, result) ==
    IF a.access_token # result.access_token
    THEN <<Notified(Google_tokensUpdated(Google_applyTokens(a, result)))>>
    ELSE <<>>

\* CronofyConnector._refreshTokenIfNeeded after token.refresh()
Cronofy_applyTokens(a, result) ==
    [a EXCEPT !.access_token = result.access_token,
              !.expiration_date = result.expires_at]

Cronofy_applyTokensEvents(a, result) ==
    <<Notified(Cronofy_tokensUpdated([refresh_token |-> a.refresh_token,
                                      access_token |-> result.access_token,
                                      expires_at |-> result.expires_at,
                                      id |-> a.id]))>>

\* CronofyConnector._prepareApiCall: the access token of the client it returns
Cronofy_clientToken(a) == IF a.client # NoClient THEN a.client ELSE a.access_token

\* and the auth object afterwards: the client is stored on it
Cronofy_prepareApiCall(a) ==
    IF a.client # NoClient THEN a ELSE [a EXCEPT !.client = a.access_token]

-----------------------------------------------------------------------------
(* Upstream payloads and the field mappers.                                  *)
(* A JavaScript object is a function from the names of the properties it     *)
(* has to their values, so a property the payload omits is a name outside    *)
(* its DOMAIN; null is the string "null".                                    *)

Null == "null"

\* the object {}
NoFields == [f \in {} |-> Undefined]

Has(o, f) == f \in DOMAIN o

\* o.f, for a property that holds an opaque value when present
Get(o, f) == IF f \in DOMAIN o THEN o[f] ELSE Undefined

\* o.f || alternative
GetOr(o, f, alternative) ==
    IF f \in DOMAIN o /\ o[f] \notin {Undefined, Null, ""} THEN o[f] ELSE alternative

\* a property that may be left out: the ways to have it or not
Opt(f, values) == {NoFields} \cup {[g \in {f} |-> v] : v \in values}

\* Schema$EventAttendee of the Google Calendar API
GoogleAttendees ==
    {[email |-> "ann@x", displayName |-> "Ann", responseStatus |-> "accepted"],
     [email |-> "bob@x", responseStatus |-> "declined"]}

GoogleAttendeeLists ==
    {<<>>} \cup {<<a>> : a \in GoogleAttendees} \cup
    {<<a, b>> : a \in GoogleAttendees, b \in GoogleAttendees}

Visibilities == {"private", "confidential", "default", "public", "secret"}

\* Schema$Event of the Google Calendar API
GoogleEvents ==
    {[id |-> "e1", description |-> "desc", created |-> "t0", updated |-> "t1",
      location |-> "room", end |-> [dateTime |-> "t9"], status |-> st]
        @@ su @@ sa @@ at @@ og @@ vi @@ cd :
     st \in {"confirmed", "cancelled"},
     su \in Opt("summary", {"standup"}),
     sa \in Opt("start", {[dateTime |-> "t5"], [date |-> "d5"]}),
     at \in Opt("attendees", GoogleAttendeeLists),
     og \in Opt("organizer", {[email |-> "org@x"]}),
     vi \in Opt("visibility", Visibilities),
     cd \in Opt("conferenceData",
                {[entryPoints |-> <<[entryPointType |-> "video", uri |-> "https://meet"]>>]})}

AccessRoles == {"freeBusyReader", "reader", "writer", "owner", "none"}

\* Schema$CalendarListEntry of the Google Calendar API
GoogleCalendars ==
    {[id |-> "c1", summary |-> "Work"] @@ ar @@ de @@ pr :
     ar \in Opt("accessRole", AccessRoles),
     de \in Opt("deleted", {TRUE}),
     pr \in Opt("primary", {TRUE, FALSE})}

\* GoogleConnector._parseVisibilityToPrivate, whose default branch answers false
Google_parseVisibilityToPrivate_DefaultPublic(visibility) ==
    visibility \in {"private", "confidential"}

\* GoogleConnector._parseVisibilityToPrivate
Google_parseVisibilityToPrivate(visibility) ==
    CASE visibility = "private" -> TRUE
      [] visibility = "confidential" -> TRUE
      [] visibility = "default" -> FALSE
      [] visibility = "public" -> FALSE
      [] OTHER -> TRUE

\* GoogleConnector._parseAccessRoleToReadOnly, with reader and writer swapped
Google_parseAccessRoleToReadOnly_ReaderWrites(accessRole) ==
    CASE accessRole = "freeBusyReader" -> TRUE
      [] accessRole = "reader" -> FALSE
      [] accessRole = "writer" -> TRUE
      [] accessRole = "owner" -> FALSE
      [] OTHER -> TRUE

\* GoogleConnector._parseAccessRoleToReadOnly
Google_parseAccessRoleToReadOnly(accessRole) ==
    CASE accessRole = "freeBusyReader" -> TRUE
      [] accessRole = "reader" -> TRUE
      [] accessRole = "writer" -> FALSE
      [] accessRole = "owner" -> FALSE
      [] OTHER -> TRUE

\* GoogleConnector._parseConferenceUrlFromConferenceData: the value returned
\* inside the forEach callback is discarded
Google_parseConferenceUrlFromConferenceData(googleEvent) == Null

\* the attendee mapping inside GoogleConnector._transformEvent
Google_transformAttendee(attendee) ==
    [email |-> Get(attendee, "email"),
     display_name |-> GetOr(attendee, "displayName", ""),
     status |-> Get(attendee, "responseStatus")]

\* googleEvent.start?.dateTime ? googleEvent.start?.dateTime : googleEvent.start?.date
Google_startOf(googleEvent) ==
    IF ~Has(googleEvent, "start") THEN Undefined
    ELSE IF GetOr(googleEvent.start, "dateTime", Undefined) # Undefined
    THEN googleEvent.start.dateTime
    ELSE Get(googleEvent.start, "date")

\* GoogleConnector._transformEvent(googleEvent, googleCalendar), with
\* calendarId standing for googleCalendar.id
Google_transformEvent(googleEvent, calendarId) ==
    [id |-> Get(googleEvent, "id"),
     calendar_id |-> calendarId,
     meeting_url |-> Google_parseConferenceUrlFromConferenceData(googleEvent),
     summary |-> Get(googleEvent, "summary"),
     description |-> Get(googleEvent, "description"),
     start |-> Google_startOf(googleEvent),
     end |-> Google_startOf(googleEvent),
     deleted |-> (Get(googleEvent, "status") = "cancelled"),
     created |-> Get(googleEvent, "created"),
     updated |-> Get(googleEvent, "updated"),
     location |-> Get(googleEvent, "location"),
     participation_status |-> "needs_action",
     attendees |-> IF Has(googleEvent, "attendees")
                   THEN [k \in 1..Len(googleEvent.attendees) |-> Google_transformAttendee(googleEvent.attendees[k])]
                   ELSE <<>>,
     organizer |-> [email |-> IF Has(googleEvent, "organizer")
                              THEN Get(googleEvent.organizer, "email") ELSE Undefined,
                    display_name |-> IF Has(googleEvent, "organizer")
                                     THEN GetOr(googleEvent.organizer, "displayName", "")
                                     ELSE ""],
     transparency |-> GetOr(googleEvent, "transparency", Null),
     status |-> Get(googleEvent, "status"),
     categories |-> <<>>,
     recurring |-> FALSE,
     private |-> Google_parseVisibilityToPrivate(Get(googleEvent, "visibility")),
     options |-> [delete |-> TRUE, update |-> TRUE, change_participation_status |-> TRUE],
     next_page_token |-> Null]

\* GoogleConnector._transformCalendar(googleCalendar, params), with
\* nextPageToken standing for params.next_page_token
Google_transformCalendar(googleCalendar, nextPageToken) ==
    [id |-> Get(googleCalendar, "id"),
     name |-> Get(googleCalendar, "summary"),
     provider_name |-> "google",
     profile_id |-> Null,
     profile_name |-> Null,
     readonly |-> Google_parseAccessRoleToReadOnly(Get(googleCalendar, "accessRole")),
     deleted |-> (Has(googleCalendar, "deleted") /\ googleCalendar.deleted),
     primary |-> (Has(googleCalendar, "primary") /\ googleCalendar.primary),
     next_page_token |-> nextPageToken]

\* what a mapper that can fail yields
Returned(v) == [t |-> "return", value |-> v]

Threw(e) == [t |-> "throw", error |-> e]

CronofyAttendees ==
    {[email |-> "ann@x", display_name |-> "Ann", status |-> "accepted"],
     [email |-> "bob@x", display_name |-> "Bob", status |-> "declined"]}

CronofyAttendeeLists ==
    {<<>>} \cup {<<a>> : a \in CronofyAttendees} \cup
    {<<a, b>> : a \in CronofyAttendees, b \in CronofyAttendees}

\* an event as the Cronofy API returns it
CronofyEvents ==
    {[event_uid |-> "u1", calendar_id |-> "c1", summary |-> "standup",
      description |-> "desc", start |-> "t5", end |-> "t9", deleted |-> de,
      created |-> "t0", updated |-> "t1", participation_status |-> "accepted",
      transparency |-> "opaque", status |-> "confirmed", recurring |-> FALSE,
      event_private |-> pv]
        @@ mu @@ lo @@ at @@ og @@ op :
     de \in BOOLEAN, pv \in BOOLEAN,
     mu \in Opt("meeting_url", {"https://meet"}),
     lo \in Opt("location", {[description |-> "room"]}),
     at \in Opt("attendees", CronofyAttendeeLists),
     og \in Opt("organizer", {[email |-> "org@x", display_name |-> "Org"]}),
     op \in Opt("options", {[delete |-> TRUE, update |-> FALSE,
                             change_participation_status |-> TRUE]})}

\* a calendar as the Cronofy API returns it
CronofyCalendars ==
    [provider_name : {"google", "apple"}, profile_id : {"pro1"}, profile_name : {"ann@x"},
     calendar_id : {"cal1"}, calendar_name : {"Work"}, calendar_readonly : BOOLEAN,
     calendar_deleted : BOOLEAN, calendar_primary : BOOLEAN]

\* the attendee mapping inside CronofyConnector._transformEvent
Cronofy_transformAttendee(attendee) ==
    [email |-> Get(attendee, "email"),
     display_name |-> Get(attendee, "display_name"),
     status |-> Get(attendee, "status")]

\* CronofyConnector._transformEvent(data): reading a property of a property
\* the payload omits throws a TypeError
Cronofy_transformEvent(data) ==
    IF ~Has(data, "attendees") \/ ~Has(data, "organizer") \/ ~Has(data, "options")
    THEN Threw(ErrJsTypeError)
    ELSE Returned(
        [id |-> Get(data, "event_uid"),
         calendar_id |-> Get(data, "calendar_id"),
         meeting_url |-> Get(data, "meeting_url"),
         summary |-> Get(data, "summary"),
         description |-> Get(data, "description"),
         start |-> Get(data, "start"),
         end |-> Get(data, "end"),
         deleted |-> data.deleted,
         created |-> Get(data, "created"),
         updated |-> Get(data, "updated"),
         location |-> IF Has(data, "location") THEN Get(data.location, "description")
                      ELSE Undefined,
         participation_status |-> Get(data, "participation_status"),
         attendees |-> [k \in 1..Len(data.attendees) |-> Cronofy_transformAttendee(data.attendees[k])],
         organizer |-> [email |-> Get(data.organizer, "email"),
                        display_name |-> Get(data.organizer, "display_name")],
         transparency |-> Get(data, "transparency"),
         status |-> Get(data, "status"),
         categories |-> <<>>,
         recurring |-> data.recurring,
         private |-> data.event_private,
         permissions |-> [delete |-> data.options.delete,
                          update |-> data.options.update,
                          change_participation_status |->
                              data.options.change_participation_status],
         next_page_token |-> Get(data, "next_page_token")])

\* CronofyConnector._transformCalendar(data)
Cronofy_transformCalendar(data) ==
    [id |-> data.calendar_id,
     name |-> data.calendar_name,
     provider_name |-> data.provider_name,
     profile_id |-> data.profile_id,
     profile_name |-> data.profile_name,
     readonly |-> data.calendar_readonly,
     deleted |-> data.calendar_deleted,
     primary |-> data.calendar_primary,
     next_page_token |-> Null]

-----------------------------------------------------------------------------
(* What an operation does with the answer of its upstream request.           *)
(* JavaScript values handed to the caller carry their kind in t and their    *)
(* content under the name of that kind.                                      *)

JsNull == [t |-> "null"]

JsUndefined == [t |-> "undefined"]

JsError(e) == [t |-> "error", error |-> e]

JsArray(xs) == [t |-> "array", array |-> xs]

JsObject(o) == [t |-> "object", object |-> o]

\* one call of the caller's callback: callback(err, value)
Callback(err, value) == [err |-> err, value |-> value]

\* the operation ran to its end, having called back as listed
Completed(callbacks) == [thrown |-> "", callbacks |-> callbacks]

\* an exception left the operation's upstream callback
Crashed(e) == [thrown |-> e, callbacks |-> <<>>]

\* an async method's promise settling, as the awaiting caller sees it
Resolved(value) == Completed(<<Callback(JsNull, value)>>)

Rejected(e) == Completed(<<Callback(JsError(e), JsUndefined)>>)

\* the message of the error GoogleConnector.constructor throws
ErrInvalidConfiguration == "Invalid configuration"

\* the config argument of a constructor: left out, or an object with any of
\* the two properties; "" is the empty string
ConfigInputs ==
    {JsUndefined} \cup
    {JsObject(id @@ secret) : id \in Opt("clientId", {"", "client-id"}),
                              secret \in Opt("clientSecret", {"", "client-secret"})}

\* GoogleConnector.constructor(config): it throws on a configuration without
\* a client id or a client secret, and else sets three properties on the
\* instance
Google_constructor(config) ==
    IF \/ config.t # "object"
       \/ GetOr(config.object, "clientId", "") = ""
       \/ GetOr(config.object, "clientSecret", "") = ""
    THEN Threw(ErrInvalidConfiguration)
    ELSE Returned([clientId |-> config.object.clientId,
                   clientSecret |-> config.object.clientSecret,
                   name |-> "google"])

\* CronofyConnector.constructor(config): reading config.clientId throws when
\* no config was given; oauth2 is the simple-oauth2 client made from the
\* client id, the secret and the fixed token host
Cronofy_constructor(config) ==
    IF config.t # "object" THEN Threw(ErrJsTypeError)
    ELSE Returned([clientId |-> Get(config.object, "clientId"),
                   clientSecret |-> Get(config.object, "clientSecret"),
                   oauth2 |-> <<Get(config.object, "clientId"),
                                Get(config.object, "clientSecret"),
                                "https://api.cronofy.com/v1">>,
                   name |-> "cronofy"])

\* the two connector instances, as constructed from one configuration
Constructed ==
    LET config == JsObject([clientId |-> "client-id", clientSecret |-> "client-secret"])
    IN  [google |-> Google_constructor(config).value,
         cronofy |-> Cronofy_constructor(config).value]

\* the options argument: present says whether the caller passed an object,
\* raw what its raw property holds
OptionsInputs ==
    {[present |-> FALSE, raw |-> FALSE], [present |-> TRUE, raw |-> FALSE],
     [present |-> TRUE, raw |-> TRUE]}

\* (options || {})[name]: raw is the only property the callers set
OptionGet(options, name) == options.present /\ name = "raw" /\ options.raw

ParamsInputs == {[calendarId |-> "c1"]}

\* params of the list operations: maxResults is a number when given
ListParamsInputs ==
    {[calendarId |-> "c1"] @@ mr : mr \in Opt("maxResults", {0, 50, 100, 101, 250})}

\* the auth objects the list operations are called with: complete, with or
\* without an id, and with an expiration_date for which _refreshTokenIfNeeded
\* hands the object back at once when the clock reads 0
ListCredentials ==
    {[access_token |-> "at0", refresh_token |-> "rt0",
      expiration_date |-> <<k * HalfDay>>] @@ id :
        k \in {0, 3}, id \in Opt("id", {"id1"})}

SeqsUpTo(S, n) == UNION {[1..k -> S] : k \in 0..n}

GoogleEventSamples ==
    {[id |-> "e1", summary |-> "standup", start |-> [dateTime |-> "t5"],
      end |-> [dateTime |-> "t9"], status |-> "confirmed", visibility |-> "public",
      attendees |-> <<[email |-> "ann@x", displayName |-> "Ann",
                       responseStatus |-> "accepted"]>>],
     [id |-> "e2", status |-> "cancelled"]}

GoogleCalendarSamples ==
    {[id |-> "c1", summary |-> "Work", accessRole |-> "owner", primary |-> TRUE],
     [id |-> "c2", summary |-> "Team", accessRole |-> "reader"]}

\* the (err, response) an upstream Google request calls back with; data is
\* response.data when the response has one
GoogleAnswers(datas) ==
    {[err |-> TRUE]} \cup {[err |-> FALSE] @@ d : d \in Opt("data", datas)}

GoogleListDatas(samples) ==
    {it @@ np : it \in Opt("items", SeqsUpTo(samples, MaxItems)),
                np \in Opt("nextPageToken", {"page2"})}

\* GoogleConnector.listEvents: googleCalParams, handed to GoogleCal.events.list
Google_listEventsRequest(credentials, params) ==
    JsObject([calendarId |-> Get(params, "calendarId"),
              timeZone |-> Get(params, "timeZone"),
              updatedMin |-> Get(params, "lastModified"),
              timeMin |-> Get(params, "from"),
              timeMax |-> Get(params, "to"),
              pageToken |-> Get(params, "pageToken"),
              singleEvents |-> TRUE] @@ credentials)

\* GoogleConnector.listCalendars: {...result.credentials, ...params}, handed
\* to GoogleCal.calendarList.list
Google_listCalendarsRequest(credentials, params) == JsObject(params @@ credentials)

\* GoogleCalConnector.listEvents and listCalendars (the earlier revision of
\* the connector): {auth, ...params} with maxResults set
GoogleCal_listRequest(params) ==
    LET maxResults == IF Has(params, "maxResults")
                      THEN (IF params.maxResults > 100 THEN 100 ELSE params.maxResults)
                      ELSE 100
    IN  JsObject([maxResults |-> maxResults] @@ params @@ [auth |-> "auth1"])

\* the callback of GoogleCal.events.list in GoogleConnector.listEvents
Google_listEventsResult(params, options, answer) ==
    IF answer.err THEN Completed(<<Callback(JsNull, JsError(ErrUpstream))>>)
    ELSE IF ~Has(answer, "data") \/ ~Has(answer.data, "items")
    THEN Completed(<<Callback(JsNull, JsArray(<<>>))>>)
    ELSE LET transform(d) == Google_transformEvent(d, params.calendarId)
             listEvent == [events |-> [k \in 1..Len(answer.data.items) |-> transform(answer.data.items[k])],
                           next_page_token |-> Get(answer.data, "nextPageToken")]
         IN  Completed(<<Callback(JsNull,
                 IF OptionGet(options, "raw") THEN JsArray(answer.data.items)
                 ELSE JsObject(listEvent))>>)

\* the callback of GoogleCal.calendarList.list in GoogleConnector.listCalendars
Google_listCalendarsResult(params, options, answer) ==
    IF answer.err THEN Completed(<<Callback(JsNull, JsError(ErrUpstream))>>)
    ELSE IF ~Has(answer, "data") \/ ~Has(answer.data, "items")
    THEN Completed(<<Callback(JsNull, JsArray(<<>>))>>)
    ELSE LET transform(d) == Google_transformCalendar(d, Get(answer.data, "nextPageToken"))
             listCalendar == [calendars |-> [k \in 1..Len(answer.data.items) |-> transform(answer.data.items[k])],
                              next_sync_token |-> Get(answer.data, "nextSyncToken"),
                              next_page_token |-> Get(answer.data, "nextPageToken")]
         IN  Completed(<<Callback(JsNull,
                 IF OptionGet(options, "raw") THEN JsArray(answer.data.items)
                 ELSE JsObject(listCalendar))>>)

\* the callback of GoogleCal.events.get in GoogleConnector.getEvent, which
\* reads options.rax
Google_getEventResult(params, options, answer) ==
    IF answer.err THEN Completed(<<Callback(JsNull, JsError(ErrUpstream))>>)
    ELSE IF ~Has(answer, "data") THEN Completed(<<Callback(JsNull, JsNull)>>)
    ELSE Completed(<<Callback(JsNull,
             IF OptionGet(options, "rax") THEN JsObject(answer.data)
             ELSE JsObject(Google_transformEvent(answer.data, params.calendarId)))>>)

\* the callback of GoogleCal.events.get in GoogleConnector.getNextEvent:
\* _transformEvent is called without a calendar and throws on reading its id
Google_getNextEventResult(params, options, answer) ==
    IF answer.err THEN Completed(<<Callback(JsNull, JsError(ErrUpstream))>>)
    ELSE IF ~Has(answer, "data") THEN Completed(<<Callback(JsNull, JsNull)>>)
    ELSE IF OptionGet(options, "raw") THEN Completed(<<Callback(JsNull, JsObject(answer.data))>>)
    ELSE Crashed(ErrJsTypeError)

\* the callback of GoogleCal.calendars.get in GoogleConnector.getCalendar
Google_getCalendarResult(params, options, answer) ==
    IF answer.err THEN Completed(<<Callback(JsNull, JsError(ErrUpstream))>>)
    ELSE IF OptionGet(options, "raw")
    THEN Completed(<<Callback(JsNull, IF Has(answer, "data") THEN JsObject(answer.data)
                                      ELSE JsUndefined)>>)
    ELSE IF ~Has(answer, "data") THEN Crashed(ErrJsTypeError)
    ELSE Completed(<<Callback(JsNull,
             JsObject(Google_transformCalendar(answer.data, Undefined)))>>)

\* channel and resource identifiers, character by character
ChannelIds == {<<"A">>, <<"A", "1">>}

ResourceIds == {<<"B">>}

\* o.f for a property that holds an identifier when present
GetName(o, f) == IF f \in DOMAIN o THEN o[f] ELSE UndefinedName

\* new OAuth2(this.clientId, this.clientSecret) after setCredentials
Google_OAuth2(credentials) ==
    [t |-> "OAuth2",
     clientId |-> Constructed.google.clientId,
     clientSecret |-> Constructed.google.clientSecret,
     credentials |-> [access_token |-> credentials.access_token,
                      refresh_token |-> credentials.refresh_token]]

\* GoogleConnector._prepareApiCall(params, callback) at clock t: the
\* arguments of the callback it makes before it returns, <<>> when it makes
\* none. Without params.credentials, refreshAuthCredentials throws on reading
\* a property of undefined and the catch hands over the exception; with
\* credentials that lack a property the catch hands over the
\* missing-properties error; with a token due for exchange the callback is
\* left to the answer of the exchange; else params is handed over, its oauth
\* set to a new client unless it holds one
Google_prepareApiCallArgs(params, t) ==
    IF ~Has(params, "credentials") THEN <<JsError(ErrJsTypeError), JsNull>>
    ELSE LET credentials == params.credentials
             complete == /\ Has(credentials, "access_token")
                         /\ credentials.access_token # Undefined
                         /\ Has(credentials, "refresh_token")
                         /\ credentials.refresh_token # Undefined
                         /\ Has(credentials, "expiration_date")
                         /\ credentials.expiration_date # NoDate
         IN  IF ~complete THEN <<JsError(ErrMissingProperties), JsNull>>
             ELSE IF ~Google_tokenStillValid(credentials, t) THEN <<>>
             ELSE IF Has(params, "oauth") /\ params.oauth.t = "OAuth2"
             THEN <<JsNull, JsObject(params)>>
             ELSE <<JsNull, JsObject([oauth |-> Google_OAuth2(credentials)] @@ params)>>

\* GoogleConnector.watchEvents: what it hands to GoogleCal.events.watch, the
\* first argument of the closure it gives to _prepareApiCall
Google_watchEventsRequest(params, options) ==
    Google_prepareApiCallArgs(
        [auth |-> "auth1", calendarId |-> params.calendarId,
         requestBody |-> [type |-> "web_hook"]], 0)[1]

\* the callback of GoogleCal.events.watch in GoogleConnector.watchEvents
Google_watchEventsResult(params, options, answer) ==
    IF answer.err THEN Completed(<<Callback(JsNull, JsError(ErrUpstream))>>)
    ELSE Completed(<<Callback(JsNull, IF Has(answer, "data") THEN JsObject(answer.data)
                                      ELSE JsUndefined)>>)

\* GoogleConnector.stopWatch: the request body it builds from params
Google_stopWatchRequestBody(params) ==
    [id |-> GetName(params, "id"), resourceId |-> GetName(params, "resourceId")]

\* and what it hands to GoogleCal.channels.stop
Google_stopWatchRequest(params) ==
    Google_prepareApiCallArgs(
        [auth |-> "auth1", requestBody |-> Google_stopWatchRequestBody(params)], 0)[1]

\* the callback of GoogleCal.channels.stop in GoogleConnector.stopWatch
Google_stopWatchResult(params, options, answer) ==
    IF answer.err THEN Completed(<<Callback(JsNull, JsError(ErrUpstream))>>)
    ELSE Completed(<<Callback(JsNull, JsObject(answer))>>)

\* the channel GoogleCal.events.watch reports
WatchDatas ==
    [id : ChannelIds, resourceId : ResourceIds, kind : {"api#channel"}]

\* params of stopWatch: the two identifiers, or one channelId
StopWatchParams ==
    [id : ChannelIds, resourceId : ResourceIds] \cup
    [channelId : {a \o <<":", ":", ":">> \o b : a \in ChannelIds, b \in ResourceIds}
                 \cup ChannelIds]

CronofyEventSamples ==
    {[event_uid |-> "u1", calendar_id |-> "c1", summary |-> "standup",
      description |-> "desc", start |-> "t5", end |-> "t9", deleted |-> FALSE,
      created |-> "t0", updated |-> "t1", participation_status |-> "accepted",
      transparency |-> "opaque", status |-> "confirmed", recurring |-> FALSE,
      event_private |-> FALSE,
      attendees |-> <<[email |-> "ann@x", display_name |-> "Ann", status |-> "accepted"]>>,
      organizer |-> [email |-> "org@x", display_name |-> "Org"],
      options |-> [delete |-> TRUE, update |-> TRUE, change_participation_status |-> TRUE]],
     [event_uid |-> "u2", calendar_id |-> "c1", summary |-> "lunch",
      description |-> "desc", start |-> "t6", end |-> "t7", deleted |-> FALSE,
      created |-> "t0", updated |-> "t1", participation_status |-> "accepted",
      transparency |-> "opaque", status |-> "confirmed", recurring |-> FALSE,
      event_private |-> TRUE,
      organizer |-> [email |-> "org@x", display_name |-> "Org"],
      options |-> [delete |-> TRUE, update |-> TRUE, change_participation_status |-> TRUE]]}

CronofyCalendarSamples ==
    {c \in CronofyCalendars : c.calendar_readonly = c.calendar_deleted /\ c.calendar_primary}

\* what client.listCalendars() settles with
CronofyCalendarAnswers ==
    {[err |-> TRUE]} \cup
    {[err |-> FALSE] @@ c : c \in Opt("calendars", SeqsUpTo(CronofyCalendarSamples, MaxItems))}

\* what client.readEvents() settles with
CronofyEventAnswers ==
    {[err |-> TRUE]} \cup
    {[err |-> FALSE] @@ e @@ pg :
        e \in Opt("events", SeqsUpTo(CronofyEventSamples, MaxItems)),
        pg \in Opt("pages", {[total |-> 0], [total |-> 2, next_page |-> "page2"]})}

\* CronofyConnector.listCalendars(auth, params, options) after
\* await client.listCalendars()
Cronofy_listCalendarsResult(params, options, answer) ==
    IF answer.err THEN Rejected(ErrUpstream)
    ELSE IF ~Has(answer, "calendars") \/ Len(answer.calendars) = 0
    THEN Resolved(JsArray(<<>>))
    ELSE IF ~options.present THEN Rejected(ErrJsTypeError)
    ELSE LET calendarList == [calendars |-> [k \in 1..Len(answer.calendars) |-> Cronofy_transformCalendar(answer.calendars[k])],
                              next_sync_token |-> Null,
                              next_page_token |-> Null]
         IN  Resolved(IF options.raw THEN JsArray(answer.calendars)
                      ELSE JsObject(calendarList))

\* CronofyConnector.listEvents(auth, params) after await client.readEvents():
\* the method takes no options
Cronofy_listEventsResult(params, options, answer) ==
    IF answer.err THEN Rejected(ErrUpstream)
    ELSE IF ~Has(answer, "events") \/ (Has(answer, "pages") /\ answer.pages.total = 0)
    THEN Resolved(JsArray(<<>>))
    ELSE IF ~Has(answer, "pages") THEN Rejected(ErrJsTypeError)
    ELSE LET nextPage == Get(answer.pages, "next_page")
             transform(event) ==
                 Cronofy_transformEvent(event @@ [next_page_token |-> nextPage])
             eventsList == [k \in 1..Len(answer.events) |-> transform(answer.events[k])]
         IN  IF \E i \in 1..Len(eventsList) : eventsList[i].t = "throw"
             THEN Rejected(ErrJsTypeError)
             ELSE Resolved(JsObject(
                      [events |-> [i \in 1..Len(eventsList) |-> eventsList[i].value],
                       next_page_token |-> nextPage]))

\* nothing has been called yet
NoOutcome == [op |-> "none"]

-----------------------------------------------------------------------------
(* The registry as a state machine *)

InitRegistry ==
    /\ connectors = <<>>
    /\ useLog = <<>>
    /\ lastOp = NoOp
    /\ auth = IdleAuth
    /\ calls = <<>>
    /\ now = 0
    /\ outcome = NoOutcome
    /\ instances = Constructed

Use ==
    \E connector \in ConnectorInputs :
        LET r == use(connectors, connector)
        IN  /\ Len(useLog) < MaxUse
            /\ connectors' = r.map
            /\ useLog' = IF r.result.kind = "return" THEN Append(useLog, connector) ELSE useLog
            /\ lastOp' = [NoOp EXCEPT !.op = "use", !.connector = connector,
                                      !.result = r.result, !.before = connectors]
            /\ UNCHANGED <<connVars, outcome, instances>>

ListConnectors ==
    /\ connectors' = connectors
    /\ useLog' = useLog
    /\ lastOp' = [NoOp EXCEPT !.op = "listConnectors", !.before = connectors,
                              !.listed = listConnectors(connectors)]
    /\ UNCHANGED <<connVars, outcome, instances>>

CallMethod ==
    \E connectorName \in NameInputs, methodName \in MethodNames :
        LET args == <<"auth1", "params1", "options1", "cb1">>
        IN  /\ connectors' = connectors
            /\ useLog' = useLog
            /\ lastOp' = [NoOp EXCEPT !.op = "callMethod", !.connectorName = connectorName,
                              !.methodName = methodName, !.args = args,
                              !.result = callMethod(connectors, connectorName, methodName,
                                                    args),
                              !.before = connectors]
            /\ UNCHANGED <<connVars, outcome, instances>>

CalendarsList ==
    \E connectorName \in NameInputs, a \in ListArgs :
        /\ connectors' = connectors
        /\ useLog' = useLog
        /\ lastOp' = [NoOp EXCEPT !.op = "calendars.list", !.connectorName = connectorName,
                          !.methodName = "listCalendars", !.args = a,
                          !.result = calendars_list(connectors, connectorName, a),
                          !.before = connectors]
        /\ UNCHANGED <<connVars, outcome, instances>>

EventsList ==
    \E connectorName \in NameInputs, a \in ListArgs :
        /\ connectors' = connectors
        /\ useLog' = useLog
        /\ lastOp' = [NoOp EXCEPT !.op = "events.list", !.connectorName = connectorName,
                          !.methodName = "listEvents", !.args = a,
                          !.result = events_list(connectors, connectorName, a),
                          !.before = connectors]
        /\ UNCHANGED <<connVars, outcome, instances>>

AuthRefreshCredentialsIfExpired ==
    \E connectorName \in NameInputs, a \in AuthArgs :
        /\ connectors' = connectors
        /\ useLog' = useLog
        /\ lastOp' = [NoOp EXCEPT !.op = "auth.refreshCredentialsIfExpired",
                          !.connectorName = connectorName,
                          !.methodName = "refreshAuthCredentials", !.args = a,
                          !.result = auth_refreshCredentialsIfExpired(connectors, connectorName,
                                                                      a),
                          !.before = connectors]
        /\ UNCHANGED <<connVars, outcome, instances>>

AuthRevokeCredentials ==
    \E connectorName \in NameInputs, a \in AuthArgs :
        /\ connectors' = connectors
        /\ useLog' = useLog
        /\ lastOp' = [NoOp EXCEPT !.op = "auth.revokeCredentials",
                          !.connectorName = connectorName,
                          !.methodName = "revokeAuthCredentials", !.args = a,
                          !.result = auth_revokeCredentials(connectors, connectorName,
                                                            a),
                          !.before = connectors]
        /\ UNCHANGED <<connVars, outcome, instances>>

Next ==
    \/ Use
    \/ ListConnectors
    \/ CallMethod
    \/ CalendarsList
    \/ EventsList
    \/ AuthRefreshCredentialsIfExpired
    \/ AuthRevokeCredentials

Spec == InitRegistry /\ [][Next]_vars

-----------------------------------------------------------------------------
(* The connectors as a state machine: calls on one shared auth object.       *)
(* A call runs synchronously up to its next upstream request and resumes     *)
(* when the answer arrives; pc names the request it waits for, or "settle"   *)
(* while the promise it handed back waits for the microtask that settles     *)
(* it. Other calls and continuations may run in between.                     *)

NoResponse == [err |-> TRUE, access_token |-> Undefined, refresh_token |-> Undefined,
               expiry_date |-> 0, expires_at |-> NoDate]

\* the promise of _refreshTokenIfNeeded while it has not settled
Unsettled == Event("pending", "", "", "", NoPayload)

\* a call: started is the auth object when the call was made and startedAt
\* the clock then; atReturn is the auth object when the call handed control
\* back to its caller; before/after are the auth object around the
\* completion of the token exchange and response what the exchange answered;
\* inFlight are the calls whose token exchange was pending when the call was
\* made; inner is what the promise of _refreshTokenIfNeeded settled with,
\* which the promise of CronofyConnector.refreshAuthCredentials takes over
\* in a later microtask (pc = "settle" until then)
NewCall(backend, op, pc, trace) ==
    [backend |-> backend, op |-> op, pc |-> pc, trace |-> trace,
     started |-> auth, startedAt |-> now, atReturn |-> auth,
     exchanged |-> FALSE, response |-> NoResponse, before |-> auth, after |-> auth,
     inFlight |-> {c \in 1..Len(calls) : calls[c].pc = "exchange"},
     inner |-> Unsettled]

InitConnectors ==
    /\ connectors = <<>>
    /\ useLog = <<>>
    /\ lastOp = NoOp
    /\ auth \in AuthInputs
    /\ calls = <<>>
    /\ now = 0
    /\ outcome = NoOutcome
    /\ instances = Constructed

Tick ==
    /\ now < MaxTicks * HalfDay
    /\ now' = now + HalfDay
    /\ UNCHANGED <<auth, calls, regVars, outcome, instances>>

\* GoogleConnector.refreshAuthCredentials(auth, params, options, callback)
Google_refreshAuthCredentials ==
    /\ Len(calls) < MaxCalls
    /\ calls' = Append(calls,
          IF ~AuthComplete(auth)
          THEN NewCall("google", "refreshAuthCredentials", "done",
                       <<Thrown(ErrMissingProperties)>>)
          ELSE IF Google_tokenStillValid(auth, now)
          THEN NewCall("google", "refreshAuthCredentials", "done",
                       <<CalledBack("", AuthRef)>>)
          ELSE NewCall("google", "refreshAuthCredentials", "exchange",
                       <<ExchangeIssued(auth.refresh_token)>>))
    /\ UNCHANGED <<auth, now, regVars, outcome, instances>>

\* GoogleConnector.listEvents: _prepareApiCall runs refreshAuthCredentials
\* inside try/catch and hands (err, result) to the closure that reads
\* result.credentials
Google_listEvents ==
    /\ Len(calls) < MaxCalls
    /\ calls' = Append(calls,
          IF ~AuthComplete(auth)
          THEN NewCall("google", "listEvents", "done", <<Thrown(ErrJsTypeError)>>)
          ELSE IF Google_tokenStillValid(auth, now)
          THEN NewCall("google", "listEvents", "primary",
                       <<PrimaryIssued(auth.access_token)>>)
          ELSE NewCall("google", "listEvents", "exchange",
                       <<ExchangeIssued(auth.refresh_token)>>))
    /\ UNCHANGED <<auth, now, regVars, outcome, instances>>

\* GoogleConnector.listCalendars: the same credential step as listEvents
Google_listCalendars ==
    /\ Len(calls) < MaxCalls
    /\ calls' = Append(calls,
          IF ~AuthComplete(auth)
          THEN NewCall("google", "listCalendars", "done", <<Thrown(ErrJsTypeError)>>)
          ELSE IF Google_tokenStillValid(auth, now)
          THEN NewCall("google", "listCalendars", "primary",
                       <<PrimaryIssued(auth.access_token)>>)
          ELSE NewCall("google", "listCalendars", "exchange",
                       <<ExchangeIssued(auth.refresh_token)>>))
    /\ UNCHANGED <<auth, now, regVars, outcome, instances>>

\* GoogleConnector.getEvent: _prepareApiCall is given {auth, ...params}, so
\* params.credentials is undefined, refreshAuthCredentials throws on reading
\* it, and the catch hands the exception to the closure as its request
\* parameters
Google_getEvent ==
    /\ Len(calls) < MaxCalls
    /\ calls' = Append(calls,
          NewCall("google", "getEvent", "primary", <<PrimaryIssued(Undefined)>>))
    /\ UNCHANGED <<auth, now, regVars, outcome, instances>>

\* GoogleConnector.getNextEvent: the same step as getEvent
Google_getNextEvent ==
    /\ Len(calls) < MaxCalls
    /\ calls' = Append(calls,
          NewCall("google", "getNextEvent", "primary", <<PrimaryIssued(Undefined)>>))
    /\ UNCHANGED <<auth, now, regVars, outcome, instances>>

\* GoogleConnector.watchEvents: the same step as getEvent
Google_watchEvents ==
    /\ Len(calls) < MaxCalls
    /\ calls' = Append(calls,
          NewCall("google", "watchEvents", "primary", <<PrimaryIssued(Undefined)>>))
    /\ UNCHANGED <<auth, now, regVars, outcome, instances>>

\* GoogleConnector.stopWatch: the same step as getEvent
Google_stopWatch ==
    /\ Len(calls) < MaxCalls
    /\ calls' = Append(calls,
          NewCall("google", "stopWatch", "primary", <<PrimaryIssued(Undefined)>>))
    /\ UNCHANGED <<auth, now, regVars, outcome, instances>>

\* GoogleConnector.getCalendar: the same step as getEvent
Google_getCalendar ==
    /\ Len(calls) < MaxCalls
    /\ calls' = Append(calls,
          NewCall("google", "getCalendar", "primary", <<PrimaryIssued(Undefined)>>))
    /\ UNCHANGED <<auth, now, regVars, outcome, instances>>

\* the callback without the return after reporting the error: it goes on to
\* apply the answer
Google_refreshAccessTokenDone_NoReturnOnError ==
    \E c \in 1..Len(calls), result \in ExchangeResponses :
        /\ calls[c].backend = "google"
        /\ calls[c].pc = "exchange"
        /\ auth' = Google_applyTokens(auth, result)
        /\ calls' = [calls EXCEPT
              ![c].pc = IF calls[c].op = "refreshAuthCredentials" \/ result.err
                        THEN "done" ELSE "primary",
              ![c].exchanged = ~result.err,
              ![c].response = result,
              ![c].before = auth,
              ![c].after = Google_applyTokens(auth, result),
              ![c].trace = @ \o (IF result.err THEN <<CalledBack(ErrUpstream, "null")>>
                                 ELSE <<>>)
                             \o Google_applyTokensEvents(auth, result) \o
                  (IF calls[c].op = "refreshAuthCredentials"
                   THEN <<CalledBack("", AuthRef)>>
                   ELSE IF result.err THEN <<Thrown(ErrJsTypeError)>>
                   ELSE <<PrimaryIssued(Google_applyTokens(auth, result).access_token)>>)]
        /\ UNCHANGED <<now, regVars, outcome, instances>>

\* the callback of oauth2Client.refreshAccessToken in _refreshTokenIfNeeded,
\* and what its callers do with the outcome
Google_refreshAccessTokenDone ==
    \E c \in 1..Len(calls), result \in ExchangeResponses :
        /\ calls[c].backend = "google"
        /\ calls[c].pc = "exchange"
        /\ IF result.err
           THEN /\ auth' = auth
                /\ calls' = [calls EXCEPT
                      ![c].pc = "done",
                      ![c].response = result,
                      ![c].before = auth,
                      ![c].after = auth,
                      ![c].trace = Append(@,
                          IF calls[c].op = "refreshAuthCredentials"
                          THEN CalledBack(ErrUpstream, "null")
                          ELSE Thrown(ErrJsTypeError))]
           ELSE /\ auth' = Google_applyTokens(auth, result)
                /\ calls' = [calls EXCEPT
                      ![c].pc = IF calls[c].op = "refreshAuthCredentials"
                                THEN "done" ELSE "primary",
                      ![c].exchanged = TRUE,
                      ![c].response = result,
                      ![c].before = auth,
                      ![c].after = Google_applyTokens(auth, result),
                      ![c].trace = @ \o Google_applyTokensEvents(auth, result) \o
                          (IF calls[c].op = "refreshAuthCredentials"
                           THEN <<CalledBack("", AuthRef)>>
                           ELSE <<PrimaryIssued(Google_applyTokens(auth, result).access_token)>>)]
        /\ UNCHANGED <<now, regVars, outcome, instances>>

\* the callback an operation of the Google connector gives to its upstream
\* request, for a call made without options: an error goes to the value
\* position; on an answer without data the list operations hand over [],
\* getEvent and getNextEvent null, watchEvents undefined, and getCalendar
\* throws in _transformCalendar; on an answer with data getNextEvent throws
\* in _transformEvent, which it calls without a calendar
Google_primaryDone ==
    \E c \in 1..Len(calls), response \in PrimaryResponses :
        /\ calls[c].backend = "google"
        /\ calls[c].pc = "primary"
        /\ calls' = [calls EXCEPT
              ![c].pc = "done",
              ![c].trace = Append(@,
                  CASE response = "error" -> CalledBack("", ErrUpstream)
                    [] response = "empty" /\ calls[c].op \in {"listEvents", "listCalendars"} ->
                         CalledBack("", "[]")
                    [] response = "empty" /\ calls[c].op \in {"getEvent", "getNextEvent"} ->
                         CalledBack("", "null")
                    [] response = "empty" /\ calls[c].op = "watchEvents" ->
                         CalledBack("", Undefined)
                    [] response = "empty" /\ calls[c].op = "getCalendar" ->
                         Thrown(ErrJsTypeError)
                    [] response = "items" /\ calls[c].op = "getNextEvent" ->
                         Thrown(ErrJsTypeError)
                    [] OTHER -> CalledBack("", "resource"))]
        /\ UNCHANGED <<auth, now, regVars, outcome, instances>>

\* GoogleConnector.revokeAuthCredentials(auth, params, options, callback)
Google_revokeAuthCredentials ==
    /\ Len(calls) < MaxCalls
    /\ calls' = Append(calls,
          IF ~AuthComplete(auth)
          THEN NewCall("google", "revokeAuthCredentials", "done",
                       <<Thrown(ErrMissingProperties)>>)
          ELSE NewCall("google", "revokeAuthCredentials", "revoke",
                       <<RevokeIssued(auth.refresh_token)>>))
    /\ UNCHANGED <<auth, now, regVars, outcome, instances>>

\* the callback of oauth2Client.revokeToken: on an error the caller's
\* callback is called with the error and then once more with the result
Google_revokeTokenDone ==
    \E c \in 1..Len(calls), response \in RevokeResponses :
        /\ calls[c].backend = "google"
        /\ calls[c].pc = "revoke"
        /\ calls' = [calls EXCEPT
              ![c].pc = "done",
              ![c].trace = @ \o
                  (IF response = "error"
                   THEN <<CalledBack(ErrUpstream, "null"), CalledBack("", Undefined)>>
                   ELSE <<CalledBack("", "result")>>)]
        /\ UNCHANGED <<auth, now, regVars, outcome, instances>>

\* refreshAuthCredentials that leaves the exchange to a call already making it
Cronofy_refreshAuthCredentials_Coalesced ==
    /\ Len(calls) < MaxCalls
    /\ calls' = Append(calls,
          IF ~AuthComplete(auth)
          THEN [NewCall("cronofy", "refreshAuthCredentials", "settle", <<>>)
                   EXCEPT !.inner = CalledBack(ErrMissingProperties, "")]
          ELSE IF Cronofy_tokenStillValid(auth, now)
                  \/ \E c \in 1..Len(calls) : calls[c].pc = "exchange"
          THEN [NewCall("cronofy", "refreshAuthCredentials", "settle", <<>>)
                   EXCEPT !.inner = CalledBack("", AuthRef)]
          ELSE NewCall("cronofy", "refreshAuthCredentials", "exchange",
                       <<ExchangeIssued(auth.refresh_token)>>))
    /\ UNCHANGED <<auth, now, regVars, outcome, instances>>

\* CronofyConnector.refreshAuthCredentials(auth), up to the point where it
\* hands its promise to the caller: _refreshTokenIfNeeded runs synchronously
\* to its throw, its return or its await token.refresh(), and the promise
\* handed back is pending in all three cases, since return await takes the
\* outcome of _refreshTokenIfNeeded over in a later microtask
Cronofy_refreshAuthCredentials ==
    /\ Len(calls) < MaxCalls
    /\ calls' = Append(calls,
          IF ~AuthComplete(auth)
          THEN [NewCall("cronofy", "refreshAuthCredentials", "settle", <<>>)
                   EXCEPT !.inner = CalledBack(ErrMissingProperties, "")]
          ELSE IF Cronofy_tokenStillValid(auth, now)
          THEN [NewCall("cronofy", "refreshAuthCredentials", "settle", <<>>)
                   EXCEPT !.inner = CalledBack("", AuthRef)]
          ELSE NewCall("cronofy", "refreshAuthCredentials", "exchange",
                       <<ExchangeIssued(auth.refresh_token)>>))
    /\ UNCHANGED <<auth, now, regVars, outcome, instances>>

\* listEvents that keeps the client on the connector instead of the auth object
Cronofy_listEvents_ClientOnInstance ==
    /\ Len(calls) < MaxCalls
    /\ calls' = Append(calls,
          NewCall("cronofy", "listEvents", "primary",
                  <<PrimaryIssued(IF Has(instances.cronofy, "client")
                                  THEN instances.cronofy.client ELSE auth.access_token)>>))
    /\ instances' = [instances EXCEPT !.cronofy =
                        IF Has(@, "client") THEN @ ELSE [client |-> auth.access_token] @@ @]
    /\ UNCHANGED <<auth, now, regVars, outcome>>

\* CronofyConnector.listEvents(auth, params)
Cronofy_listEvents ==
    /\ Len(calls) < MaxCalls
    /\ calls' = Append(calls,
          [NewCall("cronofy", "listEvents", "primary",
                   <<PrimaryIssued(Cronofy_clientToken(auth))>>)
              EXCEPT !.atReturn = Cronofy_prepareApiCall(auth)])
    /\ auth' = Cronofy_prepareApiCall(auth)
    /\ UNCHANGED <<now, regVars, outcome, instances>>

\* CronofyConnector.listCalendars(auth, params, options): _prepareApiCall is
\* given a copy of the auth object, so the client it makes is not kept, and
\* a client the auth object holds is used
Cronofy_listCalendars ==
    /\ Len(calls) < MaxCalls
    /\ calls' = Append(calls,
          NewCall("cronofy", "listCalendars", "primary",
                  <<PrimaryIssued(Cronofy_clientToken(auth))>>))
    /\ UNCHANGED <<auth, now, regVars, outcome, instances>>

\* CronofyConnector.watchEvents(auth, params): the request is made on the
\* client of _prepareApiCall (value: the token that client holds) and its
\* notificationsOptions carry auth.access_token (token)
Cronofy_watchEvents ==
    /\ Len(calls) < MaxCalls
    /\ calls' = Append(calls,
          [NewCall("cronofy", "watchEvents", "primary",
                   <<[PrimaryIssued(auth.access_token)
                         EXCEPT !.value = Cronofy_clientToken(auth)]>>)
              EXCEPT !.atReturn = Cronofy_prepareApiCall(auth)])
    /\ auth' = Cronofy_prepareApiCall(auth)
    /\ UNCHANGED <<now, regVars, outcome, instances>>

\* CronofyConnector.stopWatchEvents(auth, params): as watchEvents, on the
\* client of _prepareApiCall with auth.access_token in its options
Cronofy_stopWatchEvents ==
    /\ Len(calls) < MaxCalls
    /\ calls' = Append(calls,
          [NewCall("cronofy", "stopWatchEvents", "primary",
                   <<[PrimaryIssued(auth.access_token)
                         EXCEPT !.value = Cronofy_clientToken(auth)]>>)
              EXCEPT !.atReturn = Cronofy_prepareApiCall(auth)])
    /\ auth' = Cronofy_prepareApiCall(auth)
    /\ UNCHANGED <<now, regVars, outcome, instances>>

\* CronofyConnector.revokeAuthCredentials(auth)
Cronofy_revokeAuthCredentials ==
    /\ Len(calls) < MaxCalls
    /\ IF ~AuthComplete(auth)
       THEN /\ calls' = Append(calls,
                  NewCall("cronofy", "revokeAuthCredentials", "done",
                          <<CalledBack(ErrMissingProperties, "")>>))
            /\ auth' = auth
       ELSE /\ calls' = Append(calls,
                  [NewCall("cronofy", "revokeAuthCredentials", "revoke",
                           <<RevokeIssued(Cronofy_clientToken(auth))>>)
                      EXCEPT !.atReturn = Cronofy_prepareApiCall(auth)])
            /\ auth' = Cronofy_prepareApiCall(auth)
    /\ UNCHANGED <<now, regVars, outcome, instances>>

\* the rest of CronofyConnector.revokeAuthCredentials, after await
\* client.revokeAuthorization()
Cronofy_revokeAuthorizationDone ==
    \E c \in 1..Len(calls), response \in RevokeResponses :
        /\ calls[c].backend = "cronofy"
        /\ calls[c].pc = "revoke"
        /\ calls' = [calls EXCEPT
              ![c].pc = "done",
              ![c].trace = Append(@,
                  IF response = "error" THEN CalledBack(ErrUpstream, "")
                  ELSE CalledBack("", Undefined))]
        /\ UNCHANGED <<auth, now, regVars, outcome, instances>>

\* the rest of CronofyConnector._refreshTokenIfNeeded, after await
\* token.refresh(): a failed exchange rejects its promise, an answer is
\* written to the auth object and announced and resolves it; the promise of
\* refreshAuthCredentials is still pending when this step is over
Cronofy_tokenRefreshDone ==
    \E c \in 1..Len(calls), result \in ExchangeResponses :
        /\ calls[c].backend = "cronofy"
        /\ calls[c].pc = "exchange"
        /\ IF result.err
           THEN /\ auth' = auth
                /\ calls' = [calls EXCEPT
                      ![c].pc = "settle",
                      ![c].response = result,
                      ![c].before = auth,
                      ![c].after = auth,
                      ![c].inner = CalledBack(ErrUpstream, "")]
           ELSE /\ auth' = Cronofy_applyTokens(auth, result)
                /\ calls' = [calls EXCEPT
                      ![c].pc = "settle",
                      ![c].exchanged = TRUE,
                      ![c].response = result,
                      ![c].before = auth,
                      ![c].after = Cronofy_applyTokens(auth, result),
                      ![c].trace = @ \o Cronofy_applyTokensEvents(auth, result),
                      ![c].inner = CalledBack("", AuthRef)]
        /\ UNCHANGED <<now, regVars, outcome, instances>>

\* the rest of CronofyConnector.refreshAuthCredentials, after await
\* this._refreshTokenIfNeeded(auth): its promise settles as that one did
Cronofy_refreshAuthCredentialsSettled ==
    \E c \in 1..Len(calls) :
        /\ calls[c].backend = "cronofy"
        /\ calls[c].op = "refreshAuthCredentials"
        /\ calls[c].pc = "settle"
        /\ calls' = [calls EXCEPT
              ![c].pc = "done",
              ![c].trace = Append(@, calls[c].inner)]
        /\ UNCHANGED <<auth, now, regVars, outcome, instances>>

\* the rest of CronofyConnector.listEvents, after await client.readEvents()
Cronofy_readEventsDone ==
    \E c \in 1..Len(calls), response \in PrimaryResponses :
        /\ calls[c].backend = "cronofy"
        /\ calls[c].op = "listEvents"
        /\ calls[c].pc = "primary"
        /\ calls' = [calls EXCEPT
              ![c].pc = "done",
              ![c].trace = Append(@,
                  CASE response = "error" -> CalledBack(ErrUpstream, "")
                    [] response = "empty" -> CalledBack("", "[]")
                    [] OTHER -> CalledBack("", "resource"))]
        /\ UNCHANGED <<auth, now, regVars, outcome, instances>>

\* the rest of CronofyConnector.listCalendars, called with an options
\* object, after await client.listCalendars()
Cronofy_listCalendarsDone ==
    \E c \in 1..Len(calls), response \in PrimaryResponses :
        /\ calls[c].backend = "cronofy"
        /\ calls[c].op = "listCalendars"
        /\ calls[c].pc = "primary"
        /\ calls' = [calls EXCEPT
              ![c].pc = "done",
              ![c].trace = Append(@,
                  CASE response = "error" -> CalledBack(ErrUpstream, "")
                    [] response = "empty" -> CalledBack("", "[]")
                    [] OTHER -> CalledBack("", "resource"))]
        /\ UNCHANGED <<auth, now, regVars, outcome, instances>>

\* the rest of CronofyConnector.watchEvents, after await
\* client.createNotificationChannel(): an answer without a channel makes the
\* read of its channel_id throw
Cronofy_createNotificationChannelDone ==
    \E c \in 1..Len(calls), response \in PrimaryResponses :
        /\ calls[c].backend = "cronofy"
        /\ calls[c].op = "watchEvents"
        /\ calls[c].pc = "primary"
        /\ calls' = [calls EXCEPT
              ![c].pc = "done",
              ![c].trace = Append(@,
                  CASE response = "error" -> CalledBack(ErrUpstream, "")
                    [] response = "empty" -> CalledBack(ErrJsTypeError, "")
                    [] OTHER -> CalledBack("", "resource"))]
        /\ UNCHANGED <<auth, now, regVars, outcome, instances>>

\* the rest of CronofyConnector.stopWatchEvents, after await
\* client.deleteNotificationChannel(): whatever the answer holds, the promise
\* resolves with the channel id of params
Cronofy_deleteNotificationChannelDone ==
    \E c \in 1..Len(calls), response \in PrimaryResponses :
        /\ calls[c].backend = "cronofy"
        /\ calls[c].op = "stopWatchEvents"
        /\ calls[c].pc = "primary"
        /\ calls' = [calls EXCEPT
              ![c].pc = "done",
              ![c].trace = Append(@,
                  IF response = "error" THEN CalledBack(ErrUpstream, "")
                  ELSE CalledBack("", "resource"))]
        /\ UNCHANGED <<auth, now, regVars, outcome, instances>>

NextConnectors ==
    \/ Tick
    \/ Google_refreshAuthCredentials
    \/ Google_listEvents
    \/ Google_listCalendars
    \/ Google_getEvent
    \/ Google_getNextEvent
    \/ Google_watchEvents
    \/ Google_stopWatch
    \/ Google_getCalendar
    \/ Google_refreshAccessTokenDone
    \/ Google_primaryDone
    \/ Google_revokeAuthCredentials
    \/ Google_revokeTokenDone
    \/ Cronofy_refreshAuthCredentials
    \/ Cronofy_revokeAuthCredentials
    \/ Cronofy_revokeAuthorizationDone
    \/ Cronofy_listEvents
    \/ Cronofy_listCalendars
    \/ Cronofy_watchEvents
    \/ Cronofy_stopWatchEvents
    \/ Cronofy_tokenRefreshDone
    \/ Cronofy_refreshAuthCredentialsSettled
    \/ Cronofy_readEventsDone
    \/ Cronofy_listCalendarsDone
    \/ Cronofy_createNotificationChannelDone
    \/ Cronofy_deleteNotificationChannelDone

SpecConnectors == InitConnectors /\ [][NextConnectors]_vars

-----------------------------------------------------------------------------
(* The mappers and the operations' result handling as a state machine: one   *)
(* call, on any payload, options and upstream answer.                        *)

InitResults ==
    /\ connectors = <<>>
    /\ useLog = <<>>
    /\ lastOp = NoOp
    /\ auth = IdleAuth
    /\ calls = <<>>
    /\ now = 0
    /\ outcome = NoOutcome
    /\ instances = Constructed

Google_transformEventCall ==
    \E googleEvent \in GoogleEvents, params \in ParamsInputs :
        /\ outcome = NoOutcome
        /\ outcome' = [op |-> "_transformEvent", backend |-> "google",
                       input |-> googleEvent,
                       mapped |-> Returned(Google_transformEvent(googleEvent,
                                                                 params.calendarId))]
        /\ UNCHANGED <<regVars, connVars, instances>>

Google_transformCalendarCall ==
    \E googleCalendar \in GoogleCalendars :
        /\ outcome = NoOutcome
        /\ outcome' = [op |-> "_transformCalendar", backend |-> "google",
                       input |-> googleCalendar,
                       mapped |-> Returned(Google_transformCalendar(googleCalendar,
                                                                    Undefined))]
        /\ UNCHANGED <<regVars, connVars, instances>>

Cronofy_transformEventCall ==
    \E data \in CronofyEvents :
        /\ outcome = NoOutcome
        /\ outcome' = [op |-> "_transformEvent", backend |-> "cronofy",
                       input |-> data, mapped |-> Cronofy_transformEvent(data)]
        /\ UNCHANGED <<regVars, connVars, instances>>

Cronofy_transformCalendarCall ==
    \E data \in CronofyCalendars :
        /\ outcome = NoOutcome
        /\ outcome' = [op |-> "_transformCalendar", backend |-> "cronofy",
                       input |-> data,
                       mapped |-> Returned(Cronofy_transformCalendar(data))]
        /\ UNCHANGED <<regVars, connVars, instances>>

\* an operation that has issued its upstream request and handed control
\* back to its caller: the arguments the callback of the request will read
Requested(backend, op, params, options) ==
    [op |-> op, backend |-> backend, params |-> params, options |-> options]

\* the upstream request of operation op is issued and not answered yet
Pending(backend, op) ==
    /\ outcome.op = op
    /\ outcome.backend = backend
    /\ ~Has(outcome, "answer")

\* the operation's record once the answer has come: the upstream answer and
\* what the caller got
Answered(answer, result) == outcome @@ [answer |-> answer, result |-> result]

\* new GoogleConnector(config)
Google_constructorCall ==
    \E config \in ConfigInputs :
        /\ outcome = NoOutcome
        /\ outcome' = [op |-> "constructor", backend |-> "google", input |-> config,
                       mapped |-> Google_constructor(config)]
        /\ UNCHANGED <<regVars, connVars, instances>>

\* new CronofyConnector(config), without a config or with a complete one
Cronofy_constructorCall ==
    \E config \in {c \in ConfigInputs : c.t = "object" => Google_constructor(c).t = "return"} :
        /\ outcome = NoOutcome
        /\ outcome' = [op |-> "constructor", backend |-> "cronofy", input |-> config,
                       mapped |-> Cronofy_constructor(config)]
        /\ UNCHANGED <<regVars, connVars, instances>>

\* while a request is pending the caller, in another callback, changes the
\* raw property of the options object it passed
Caller_setsRaw ==
    \E raw \in BOOLEAN :
        /\ Has(outcome, "options")
        /\ ~Has(outcome, "answer")
        /\ outcome.options.present
        /\ outcome.options.raw # raw
        /\ outcome' = [outcome EXCEPT !.options.raw = raw]
        /\ UNCHANGED <<regVars, connVars, instances>>

\* GoogleConnector.listEvents up to GoogleCal.events.list
Google_listEventsRequested ==
    \E params \in ListParamsInputs, options \in OptionsInputs,
       credentials \in ListCredentials :
        LET args == Google_prepareApiCallArgs([credentials |-> credentials, oauth |-> JsNull], now)
        IN
        /\ outcome = NoOutcome
        /\ outcome' = Requested("google", "listEvents", params, options)
              @@ [auth |-> credentials,
                  sent |-> <<Google_listEventsRequest(args[2].object.credentials, params)>>]
        /\ UNCHANGED <<regVars, connVars, instances>>

\* the callback of GoogleCal.events.list
Google_listEventsAnswered ==
    \E answer \in GoogleAnswers(GoogleListDatas(GoogleEventSamples)) :
        /\ Pending("google", "listEvents")
        /\ outcome' = Answered(answer,
              Google_listEventsResult(outcome.params, outcome.options, answer))
        /\ UNCHANGED <<regVars, connVars, instances>>

\* GoogleConnector.listCalendars up to GoogleCal.calendarList.list
Google_listCalendarsRequested ==
    \E params \in ListParamsInputs, options \in OptionsInputs,
       credentials \in ListCredentials :
        LET args == Google_prepareApiCallArgs([credentials |-> credentials, oauth |-> JsNull], now)
        IN
        /\ outcome = NoOutcome
        /\ outcome' = Requested("google", "listCalendars", params, options)
              @@ [auth |-> credentials,
                  sent |-> <<Google_listCalendarsRequest(args[2].object.credentials, params)>>]
        /\ UNCHANGED <<regVars, connVars, instances>>

\* the callback of GoogleCal.calendarList.list
Google_listCalendarsAnswered ==
    \E answer \in GoogleAnswers(GoogleListDatas(GoogleCalendarSamples)) :
        /\ Pending("google", "listCalendars")
        /\ outcome' = Answered(answer,
              Google_listCalendarsResult(outcome.params, outcome.options, answer))
        /\ UNCHANGED <<regVars, connVars, instances>>

\* GoogleConnector.getEvent up to GoogleCal.events.get
Google_getEventRequested ==
    \E params \in ParamsInputs, options \in OptionsInputs :
        /\ outcome = NoOutcome
        /\ outcome' = Requested("google", "getEvent", params, options)
        /\ UNCHANGED <<regVars, connVars, instances>>

\* the callback of GoogleCal.events.get in getEvent
Google_getEventAnswered ==
    \E answer \in GoogleAnswers(GoogleEvents) :
        /\ Pending("google", "getEvent")
        /\ outcome' = Answered(answer,
              Google_getEventResult(outcome.params, outcome.options, answer))
        /\ UNCHANGED <<regVars, connVars, instances>>

\* GoogleConnector.getNextEvent up to GoogleCal.events.get
Google_getNextEventRequested ==
    \E params \in ParamsInputs, options \in OptionsInputs :
        /\ outcome = NoOutcome
        /\ outcome' = Requested("google", "getNextEvent", params, options)
        /\ UNCHANGED <<regVars, connVars, instances>>

\* the callback of GoogleCal.events.get in getNextEvent
Google_getNextEventAnswered ==
    \E answer \in GoogleAnswers(GoogleEventSamples) :
        /\ Pending("google", "getNextEvent")
        /\ outcome' = Answered(answer,
              Google_getNextEventResult(outcome.params, outcome.options, answer))
        /\ UNCHANGED <<regVars, connVars, instances>>

\* GoogleConnector.getCalendar up to GoogleCal.calendars.get
Google_getCalendarRequested ==
    \E params \in ParamsInputs, options \in OptionsInputs :
        /\ outcome = NoOutcome
        /\ outcome' = Requested("google", "getCalendar", params, options)
        /\ UNCHANGED <<regVars, connVars, instances>>

\* the callback of GoogleCal.calendars.get
Google_getCalendarAnswered ==
    \E answer \in GoogleAnswers(GoogleCalendars) :
        /\ Pending("google", "getCalendar")
        /\ outcome' = Answered(answer,
              Google_getCalendarResult(outcome.params, outcome.options, answer))
        /\ UNCHANGED <<regVars, connVars, instances>>

\* GoogleConnector.watchEvents up to GoogleCal.events.watch
Google_watchEventsRequested ==
    \E params \in ParamsInputs, options \in OptionsInputs :
        /\ outcome = NoOutcome
        /\ outcome' = Requested("google", "watchEvents", params, options)
              @@ [sent |-> <<Google_watchEventsRequest(params, options)>>]
        /\ UNCHANGED <<regVars, connVars, instances>>

\* the callback of GoogleCal.events.watch
Google_watchEventsAnswered ==
    \E answer \in GoogleAnswers(WatchDatas) :
        /\ Pending("google", "watchEvents")
        /\ outcome' = Answered(answer,
              Google_watchEventsResult(outcome.params, outcome.options, answer))
        /\ UNCHANGED <<regVars, connVars, instances>>

\* GoogleConnector.stopWatch up to GoogleCal.channels.stop
Google_stopWatchRequested ==
    \E params \in StopWatchParams, options \in OptionsInputs :
        /\ outcome = NoOutcome
        /\ outcome' = Requested("google", "stopWatch", params, options)
              @@ [sent |-> <<Google_stopWatchRequest(params)>>,
                  requestBody |-> Google_stopWatchRequestBody(params)]
        /\ UNCHANGED <<regVars, connVars, instances>>

\* the callback of GoogleCal.channels.stop
Google_stopWatchAnswered ==
    \E answer \in GoogleAnswers({}) :
        /\ Pending("google", "stopWatch")
        /\ outcome' = Answered(answer,
              Google_stopWatchResult(outcome.params, outcome.options, answer))
        /\ UNCHANGED <<regVars, connVars, instances>>

\* GoogleCalConnector.listEvents / listCalendars up to the upstream request
GoogleCal_listRequested ==
    \E params \in ListParamsInputs, op \in {"listEvents", "listCalendars"} :
        /\ outcome = NoOutcome
        /\ outcome' = [op |-> "list request", backend |-> "googlecal", method |-> op,
                       params |-> params, sent |-> <<GoogleCal_listRequest(params)>>]
        /\ UNCHANGED <<regVars, connVars, instances>>

\* CronofyConnector.listCalendars up to await client.listCalendars()
Cronofy_listCalendarsRequested ==
    \E params \in ParamsInputs, options \in OptionsInputs :
        /\ outcome = NoOutcome
        /\ outcome' = Requested("cronofy", "listCalendars", params, options)
        /\ UNCHANGED <<regVars, connVars, instances>>

\* the rest of CronofyConnector.listCalendars
Cronofy_listCalendarsAnswered ==
    \E answer \in CronofyCalendarAnswers :
        /\ Pending("cronofy", "listCalendars")
        /\ outcome' = Answered(answer,
              Cronofy_listCalendarsResult(outcome.params, outcome.options, answer))
        /\ UNCHANGED <<regVars, connVars, instances>>

\* CronofyConnector.listEvents up to await client.readEvents():
\* _prepareApiCall is given the auth object itself and stores the client on it
Cronofy_listEventsRequested ==
    \E params \in ParamsInputs, options \in OptionsInputs :
        /\ outcome = NoOutcome
        /\ outcome' = Requested("cronofy", "listEvents", params, options)
        /\ auth' = Cronofy_prepareApiCall(auth)
        /\ UNCHANGED <<regVars, calls, now, instances>>

\* the rest of CronofyConnector.listEvents
Cronofy_listEventsAnswered ==
    \E answer \in CronofyEventAnswers :
        /\ Pending("cronofy", "listEvents")
        /\ outcome' = Answered(answer,
              Cronofy_listEventsResult(outcome.params, outcome.options, answer))
        /\ UNCHANGED <<regVars, connVars, instances>>

NextResults ==
    \/ Google_transformEventCall
    \/ Google_transformCalendarCall
    \/ Cronofy_transformEventCall
    \/ Cronofy_transformCalendarCall
    \/ Google_constructorCall
    \/ Cronofy_constructorCall
    \/ Caller_setsRaw
    \/ Google_listEventsRequested
    \/ Google_listEventsAnswered
    \/ Google_listCalendarsRequested
    \/ Google_listCalendarsAnswered
    \/ Google_getEventRequested
    \/ Google_getEventAnswered
    \/ Google_getNextEventRequested
    \/ Google_getNextEventAnswered
    \/ Google_getCalendarRequested
    \/ Google_getCalendarAnswered
    \/ Google_watchEventsRequested
    \/ Google_watchEventsAnswered
    \/ Google_stopWatchRequested
    \/ Google_stopWatchAnswered
    \/ GoogleCal_listRequested
    \/ Cronofy_listCalendarsRequested
    \/ Cronofy_listCalendarsAnswered
    \/ Cronofy_listEventsRequested
    \/ Cronofy_listEventsAnswered

SpecResults == InitResults /\ [][NextResults]_vars

-----------------------------------------------------------------------------
(* Vocabulary of the registry claims, stated without the code's own helpers *)

DispatchOps == {"callMethod", "calendars.list", "events.list",
                "auth.refreshCredentialsIfExpired", "auth.revokeCredentials"}

SameLetter(c, d) == c = d \/ {c, d} = {"a", "A"} \/ {c, d} = {"b", "B"}

EqIgnoreCase(s, t) ==
    /\ s # UndefinedName
    /\ t # UndefinedName
    /\ Len(s) = Len(t)
    /\ \A i \in 1..Len(s) : SameLetter(s[i], t[i])

IsLowerCased(s) == \A i \in 1..Len(s) : s[i] \in {"a", "b"}

RegisteredAs(n) == {j \in 1..Len(useLog) : EqIgnoreCase(useLog[j].name, n)}

LatestRegistered(n) ==
    useLog[CHOOSE j \in RegisteredAs(n) : \A k \in RegisteredAs(n) : k <= j]

NotFoundErrors == {ErrNoConnectorName, ErrUnknownConnector}

\* the method each facade entry stands for
FacadeMethod(op) ==
    CASE op = "calendars.list" -> "listCalendars"
      [] op = "events.list" -> "listEvents"
      [] op = "auth.refreshCredentialsIfExpired" -> "refreshAuthCredentials"
      [] op = "auth.revokeCredentials" -> "revokeAuthCredentials"
      [] OTHER -> lastOp.methodName

\* the caller's arguments, position by position, padded with undefined
PositionalArgs(a) == [i \in 1..4 |-> IF i <= Len(a) THEN a[i] ELSE Undefined]

\* the caller's arguments in the positions (auth, params, options, callback)
\* of a connector method: the callers of the auth entries give an auth
\* object and a callback, and neither params nor options
ArgsInTheirPositions(op, a) ==
    IF op \in {"auth.refreshCredentialsIfExpired", "auth.revokeCredentials"}
    THEN <<a[1], Undefined, Undefined, a[2]>>
    ELSE <<a[1], a[2], a[3], a[4]>>

-----------------------------------------------------------------------------
(* C1: a dispatch whose connector name is empty, absent or matches no        *)
(* registered connector fails with the registry's not-found error, whatever  *)
(* the method name, and invokes no connector method.                         *)
C1_UnknownConnectorFails ==
    (/\ lastOp.op \in DispatchOps
     /\ (~Truthy(lastOp.connectorName) \/ RegisteredAs(lastOp.connectorName) = {}))
        => /\ lastOp.result.kind = "throw"
           /\ lastOp.result.error \in NotFoundErrors
           /\ lastOp.result.invoked = <<>>

C1_Witness ==
    /\ lastOp.op = "callMethod"
    /\ lastOp.connectorName = <<"b">>
    /\ lastOp.methodName = "listEvents"
    /\ Len(useLog) = 1
    /\ useLog[1].name = <<"A", "b">>
    /\ lastOp.result.error = ErrUnknownConnector

(* C2: a dispatch that resolves a registered connector but names a method    *)
(* the connector does not implement fails with the does-not-implement error  *)
(* and invokes no connector method.                                          *)
C2_UnimplementedMethodFails ==
    (/\ lastOp.op \in DispatchOps
     /\ Truthy(lastOp.connectorName)
     /\ RegisteredAs(lastOp.connectorName) # {}
     /\ ~IsCallable(lastOp.methodName, LatestRegistered(lastOp.connectorName)))
        => /\ lastOp.result.kind = "throw"
           /\ lastOp.result.error = ErrNotImplemented
           /\ lastOp.result.invoked = <<>>

(* C3: dispatching under any spelling that differs from a registered name    *)
(* only in letter case resolves the same connector and gives the same        *)
(* outcome as dispatching under the registered spelling.                     *)
C3_CaseInsensitiveLookup ==
    (/\ lastOp.op \in DispatchOps
     /\ Truthy(lastOp.connectorName))
        => \A j \in RegisteredAs(lastOp.connectorName) :
              /\ lastOp.result.error \notin NotFoundErrors
              /\ lastOp.result = callMethod(connectors, useLog[j].name,
                                            FacadeMethod(lastOp.op),
                                            PositionalArgs(lastOp.args))
              /\ lastOp.result.invoked # <<>> =>
                    lastOp.result.invoked[1].connector = LatestRegistered(useLog[j].name)

C3_Witness ==
    /\ lastOp.op = "events.list"
    /\ lastOp.connectorName = <<"A", "B">>
    /\ Len(useLog) = 1
    /\ useLog[1].name = <<"a", "b">>
    /\ lastOp.result.kind = "return"

(* C4: a successful dispatch, through callMethod or any facade entry,        *)
(* invokes the named method of the resolved connector exactly once with the  *)
(* caller's auth object in the auth position, params in the params           *)
(* position, options in the options position and callback in the callback    *)
(* position, returns that method's result and leaves the registry as it      *)
(* was; each facade entry names its own method.                              *)
C4_PureRouting ==
    (/\ lastOp.op \in DispatchOps
     /\ lastOp.result.kind = "return")
        => /\ Len(lastOp.result.invoked) = 1
           /\ lastOp.result.invoked[1].method = FacadeMethod(lastOp.op)
           /\ lastOp.result.invoked[1].args = ArgsInTheirPositions(lastOp.op, lastOp.args)
           /\ RegisteredAs(lastOp.connectorName) # {}
           /\ lastOp.result.invoked[1].connector = LatestRegistered(lastOp.connectorName)
           /\ lastOp.result.value = lastOp.result.invoked[1].returned
           /\ connectors = lastOp.before

(* C5: the registry holds at most one connector per lower-cased name, and    *)
(* the connector held under a name is the one most recently registered with  *)
(* a name equal to it ignoring case.                                         *)
C5_LastRegistrationWins ==
    /\ \A i, j \in 1..Len(connectors) :
          i # j => ~EqIgnoreCase(connectors[i].key, connectors[j].key)
    /\ \A i \in 1..Len(connectors) :
          /\ IsLowerCased(connectors[i].key)
          /\ RegisteredAs(connectors[i].key) # {}
          /\ connectors[i].value = LatestRegistered(connectors[i].key)
    /\ \A j \in 1..Len(useLog) :
          \E i \in 1..Len(connectors) : EqIgnoreCase(connectors[i].key, useLog[j].name)

C5_Witness ==
    /\ lastOp.op = "use"
    /\ Len(useLog) = 2
    /\ useLog[1] # useLog[2]
    /\ EqIgnoreCase(useLog[1].name, useLog[2].name)
    /\ Len(connectors) = 1
    /\ connectors[1].value = useLog[2]

(* C6: use fails with a configuration error when the connector is absent or  *)
(* has no name, and then leaves the registry as it was.                      *)
C6_InvalidConnectorRejected ==
    (/\ lastOp.op = "use"
     /\ (lastOp.connector = NullConnector \/ ~Truthy(lastOp.connector.name)))
        => /\ lastOp.result.kind = "throw"
           /\ lastOp.result.error \in {ErrNoConnector, ErrNoName}
           /\ connectors = lastOp.before

C6_Witness ==
    /\ lastOp.op = "use"
    /\ lastOp.connector # NullConnector
    /\ lastOp.connector.name = EmptyName
    /\ lastOp.result.error = ErrNoName
    /\ Len(lastOp.before) = 1
    /\ connectors = lastOp.before

(* C7: listConnectors returns exactly the lower-cased names of the           *)
(* connectors registered so far, each name once.                             *)
C7_ListConnectorsExact ==
    lastOp.op = "listConnectors"
        => /\ \A i, j \in 1..Len(lastOp.listed) :
                 i # j => lastOp.listed[i] # lastOp.listed[j]
           /\ \A i \in 1..Len(lastOp.listed) :
                 /\ IsLowerCased(lastOp.listed[i])
                 /\ RegisteredAs(lastOp.listed[i]) # {}
           /\ \A j \in 1..Len(useLog) :
                 \E i \in 1..Len(lastOp.listed) :
                    EqIgnoreCase(lastOp.listed[i], useLog[j].name)

C7_Witness ==
    /\ lastOp.op = "listConnectors"
    /\ Len(useLog) = 2
    /\ {lastOp.listed[i] : i \in 1..Len(lastOp.listed)} = {<<"a", "b">>, <<"b">>}
    /\ \E j \in 1..2 : useLog[j].name = <<"A", "B">>

(* C30: a dispatch that resolves a registered connector either fails with   *)
(* the does-not-implement error and invokes nothing, or invokes exactly one  *)
(* method that the connector itself defines; it never fails in another way   *)
(* and never invokes a member the connector merely inherits.                 *)
C30_DispatchOnlyCallable ==
    (/\ lastOp.op \in DispatchOps
     /\ Truthy(lastOp.connectorName)
     /\ RegisteredAs(lastOp.connectorName) # {})
        => \/ /\ lastOp.result.kind = "throw"
              /\ lastOp.result.error = ErrNotImplemented
              /\ lastOp.result.invoked = <<>>
           \/ /\ lastOp.result.kind = "return"
              /\ Len(lastOp.result.invoked) = 1
              /\ lastOp.result.invoked[1].method = FacadeMethod(lastOp.op)
              /\ lastOp.result.invoked[1].method
                    \in OwnMethods(LatestRegistered(lastOp.connectorName))

-----------------------------------------------------------------------------
(* Vocabulary of the connector claims *)

EventsOfType(c, type) == {i \in 1..Len(calls[c].trace) : calls[c].trace[i].type = type}

\* time left on the auth object when call c was made
RemainingAtStart(c) == calls[c].started.expiration_date[1] - calls[c].startedAt

\* the access token the auth object holds once call c's credential step is over
PostRefreshToken(c) ==
    IF calls[c].exchanged THEN calls[c].after.access_token
    ELSE calls[c].started.access_token

\* the backend's expiry of the new token, as a Date
NewExpiration(c) ==
    IF calls[c].backend = "google"
    THEN fromUnixTime(calls[c].response.expiry_date)
    ELSE calls[c].response.expires_at

\* an auth object without one of the three fields the connectors require
LacksField(a) ==
    a.access_token = Undefined \/ a.refresh_token = Undefined \/ a.expiration_date = NoDate

Rotated(c) ==
    /\ calls[c].response.refresh_token # Undefined
    /\ calls[c].response.refresh_token # calls[c].before.refresh_token

(* C8: within one call made with a complete auth object, the credential     *)
(* step and any newAccessToken notification come before the primary API      *)
(* call, and the primary call carries the access token the auth object       *)
(* holds after that step.                                                    *)
C8_RefreshBeforePrimary ==
    \A c \in 1..Len(calls) :
        AuthComplete(calls[c].started) =>
            \A p \in EventsOfType(c, "primary") :
                /\ \A q \in EventsOfType(c, "notify") \cup EventsOfType(c, "exchange") : q < p
                /\ calls[c].trace[p].token = PostRefreshToken(c)

(* C9: refreshAuthCredentials on a complete auth object with more than one   *)
(* day left makes no token exchange and hands back the object unchanged.     *)
C9_ValidTokenNotExchanged ==
    \A c \in 1..Len(calls) :
        (/\ calls[c].op = "refreshAuthCredentials"
         /\ AuthComplete(calls[c].started)
         /\ RemainingAtStart(c) > MsPerDay)
            => /\ EventsOfType(c, "exchange") = {}
               /\ ~calls[c].exchanged
               /\ calls[c].pc = "done" => calls[c].trace = <<CalledBack("", AuthRef)>>

(* C10: a token exchange that succeeds updates access_token and              *)
(* expiration_date of the auth object in place, replaces refresh_token only  *)
(* if the backend rotated it, emits exactly one newAccessToken notification  *)
(* carrying the updated fields and the id, and hands back the same object.   *)
C10_ExchangeUpdatesAuth ==
    \A c \in 1..Len(calls) :
        calls[c].exchanged
            => /\ calls[c].after.access_token = calls[c].response.access_token
               /\ calls[c].after.expiration_date = NewExpiration(c)
               /\ \/ calls[c].after.refresh_token = calls[c].before.refresh_token
                  \/ Rotated(c) /\ calls[c].after.refresh_token = calls[c].response.refresh_token
               /\ Cardinality(EventsOfType(c, "notify")) = 1
               /\ \A n \in EventsOfType(c, "notify") :
                     calls[c].trace[n].payload =
                        [access_token |-> calls[c].after.access_token,
                         refresh_token |-> calls[c].after.refresh_token,
                         expiration_date |-> toISOString(calls[c].after.expiration_date),
                         id |-> calls[c].after.id]
               /\ (calls[c].op = "refreshAuthCredentials" /\ calls[c].pc = "done") =>
                     calls[c].trace[Len(calls[c].trace)] = CalledBack("", AuthRef)

(* C11: two refreshAuthCredentials calls made one right after the other on   *)
(* a complete auth object with more than one day left both hand back the     *)
(* same object with its fields unchanged, and emit no newAccessToken         *)
(* notification.                                                             *)
C11_RefreshIdempotent ==
    \A c \in 1..Len(calls) : \A d \in 1..Len(calls) :
        (/\ d = c + 1
         /\ calls[c].op = "refreshAuthCredentials"
         /\ calls[d].op = "refreshAuthCredentials"
         /\ calls[c].backend = calls[d].backend
         /\ calls[d].startedAt = calls[c].startedAt
         /\ ~LacksField(calls[c].started)
         /\ RemainingAtStart(c) > MsPerDay)
            => /\ calls[d].started = calls[c].started
               /\ EventsOfType(c, "exchange") \cup EventsOfType(c, "notify") = {}
               /\ EventsOfType(d, "exchange") \cup EventsOfType(d, "notify") = {}
               /\ calls[c].pc = "done" => calls[c].trace = <<CalledBack("", AuthRef)>>
               /\ calls[d].pc = "done" => calls[d].trace = <<CalledBack("", AuthRef)>>
               /\ calls[c].after = calls[c].started
               /\ calls[d].after = calls[c].started

(* C12: refreshAuthCredentials and revokeAuthCredentials on an auth object   *)
(* that lacks access_token, refresh_token or expiration_date fail with the   *)
(* missing-properties error: the call never waits for an upstream answer,    *)
(* issues no exchange, revocation or primary request, emits no notification  *)
(* and hands control back with the auth object as it found it; its outcome   *)
(* is fixed when it hands control back (thrown, or a promise that is         *)
(* rejected or about to be), and once it is over the missing-properties      *)
(* error is all it has delivered.                                            *)
C12_ValidationBeforeNetwork ==
    \A c \in 1..Len(calls) :
        (/\ calls[c].op \in {"refreshAuthCredentials", "revokeAuthCredentials"}
         /\ LacksField(calls[c].started))
            => /\ calls[c].pc \in {"settle", "done"}
               /\ \A i \in 1..Len(calls[c].trace) :
                     calls[c].trace[i].type \in {"throw", "callback"}
               /\ calls[c].pc = "settle" =>
                     /\ calls[c].trace = <<>>
                     /\ calls[c].inner = CalledBack(ErrMissingProperties, "")
               /\ calls[c].pc = "done" =>
                     /\ Len(calls[c].trace) = 1
                     /\ calls[c].trace[1].err = ErrMissingProperties
               /\ calls[c].atReturn = calls[c].started
               /\ calls[c].response = NoResponse
               /\ ~calls[c].exchanged

C12_Witness ==
    /\ Len(calls) = 2
    /\ calls[1].backend = "cronofy"
    /\ calls[1].op = "refreshAuthCredentials"
    /\ calls[1].started.access_token # Undefined
    /\ calls[1].started.refresh_token = Undefined
    /\ calls[1].started.expiration_date # NoDate
    /\ calls[1].pc = "done"
    /\ calls[1].trace = <<CalledBack(ErrMissingProperties, "")>>
    /\ calls[2].backend = "google"
    /\ calls[2].op = "revokeAuthCredentials"
    /\ calls[2].inFlight = {}
    /\ calls[2].trace = <<Thrown(ErrMissingProperties)>>
    /\ auth = calls[1].started

\* the operations that run the credential step of their connector
RefreshingOps(backend) ==
    IF backend = "google" THEN {"refreshAuthCredentials", "listEvents", "listCalendars"}
    ELSE {"refreshAuthCredentials"}

\* the three fields of an auth object that a token exchange may replace
TokenFields(a) == <<a.access_token, a.refresh_token, a.expiration_date>>

(* C21: whatever calls have been made, each connector instance holds the     *)
(* properties its constructor set (client id, client secret, name, and for   *)
(* Cronofy the oauth client built from them) with their values, and no       *)
(* others.                                                                   *)
C21_NoInstanceState ==
    /\ DOMAIN instances.google = {"clientId", "clientSecret", "name"}
    /\ instances.google.clientId = "client-id"
    /\ instances.google.clientSecret = "client-secret"
    /\ instances.google.name = "google"
    /\ DOMAIN instances.cronofy = {"clientId", "clientSecret", "oauth2", "name"}
    /\ instances.cronofy.clientId = "client-id"
    /\ instances.cronofy.clientSecret = "client-secret"
    /\ instances.cronofy.oauth2 =
          <<"client-id", "client-secret", "https://api.cronofy.com/v1">>
    /\ instances.cronofy.name = "cronofy"

C21_Witness ==
    /\ Len(calls) = 2
    /\ calls[1].backend = "cronofy"
    /\ calls[1].op = "listEvents"
    /\ calls[1].pc = "done"
    /\ calls[2].backend = "cronofy"
    /\ calls[2].op = "refreshAuthCredentials"
    /\ calls[2].exchanged
    /\ calls[2].pc = "done"
    /\ auth.client = "at0"
    /\ auth.access_token = "at1"
    /\ ~Has(instances.cronofy, "client")

\* the days between the clock and the expiry for which the code of a
\* connector makes a token exchange: GoogleConnector with two days or more
\* left, CronofyConnector two days or more after the expiry
ExchangeMade(c) ==
    IF calls[c].backend = "google" THEN RemainingAtStart(c) >= 2 * MsPerDay
    ELSE RemainingAtStart(c) <= -2 * MsPerDay

(* C22: calls on one auth object are not synchronized. A call that runs the  *)
(* credential step on a complete auth object for which its connector makes   *)
(* an exchange issues a token exchange of its own, however many exchanges    *)
(* on that object are pending when it is made; and every exchange that       *)
(* succeeds writes its own answer to the auth object, whatever an exchange   *)
(* completed meanwhile wrote there, and announces that answer in a           *)
(* notification of its own (GoogleConnector only when the answer changes     *)
(* the access token the object holds).                                       *)
C22_RefreshNotSynchronized ==
    \A d \in 1..Len(calls) :
        /\ (/\ calls[d].op \in RefreshingOps(calls[d].backend)
            /\ ~LacksField(calls[d].started)
            /\ ExchangeMade(d))
               => /\ Len(calls[d].trace) >= 1
                  /\ calls[d].trace[1] = ExchangeIssued(calls[d].started.refresh_token)
        /\ (/\ calls[d].exchanged
            /\ (calls[d].backend = "google"
                    => calls[d].response.access_token # calls[d].before.access_token))
               => /\ calls[d].after.access_token = calls[d].response.access_token
                  /\ \E n \in EventsOfType(d, "notify") :
                        /\ calls[d].trace[n].payload.access_token =
                              calls[d].response.access_token
                        /\ \A x \in EventsOfType(d, "exchange") : x < n

C22_Witness ==
    /\ Len(calls) = 2
    /\ calls[1].backend = "cronofy"
    /\ calls[2].backend = "cronofy"
    /\ calls[1].op = "refreshAuthCredentials"
    /\ calls[2].op = "refreshAuthCredentials"
    /\ calls[2].inFlight = {1}
    /\ calls[1].started.expiration_date = <<-4 * HalfDay>>
    /\ calls[1].exchanged
    /\ calls[2].exchanged
    /\ calls[1].pc = "done"
    /\ calls[2].pc = "done"
    /\ Cardinality(EventsOfType(1, "notify")) = 1
    /\ Cardinality(EventsOfType(2, "notify")) = 1
    /\ calls[1].after.access_token = "at1"
    /\ calls[2].before.access_token = "at1"
    /\ calls[2].after.access_token = "at2"
    /\ auth.access_token = "at2"

(* C27: a callback-style operation of the Google connector, made with a      *)
(* complete auth object, has called the caller's callback exactly once by    *)
(* the time it is over, and has thrown nothing.                              *)
C27_CallbackExactlyOnce ==
    \A c \in 1..Len(calls) :
        (/\ calls[c].backend = "google"
         /\ calls[c].op \in {"listEvents", "listCalendars", "refreshAuthCredentials",
                             "revokeAuthCredentials"}
         /\ ~LacksField(calls[c].started)
         /\ calls[c].pc = "done")
            => /\ Cardinality(EventsOfType(c, "callback")) = 1
               /\ EventsOfType(c, "throw") = {}

(* C28: a call that makes no token exchange leaves the auth object as it     *)
(* found it, and the upstream request of listEvents, listCalendars,          *)
(* watchEvents, stopWatchEvents and revokeAuthCredentials carries a token    *)
(* the auth object holds at that moment, never one kept from an earlier      *)
(* call.                                                                     *)
C28_AuthUntouchedTokenFresh ==
    \A c \in 1..Len(calls) :
        (/\ calls[c].op \in {"listEvents", "listCalendars", "watchEvents",
                             "stopWatchEvents", "revokeAuthCredentials"}
         /\ ~LacksField(calls[c].started))
            => /\ EventsOfType(c, "exchange") = {} => calls[c].atReturn = calls[c].started
               /\ \A p \in EventsOfType(c, "primary") \cup EventsOfType(c, "revoke") :
                     calls[c].trace[p].token \in
                        {PostRefreshToken(c),
                         IF calls[c].exchanged THEN calls[c].after.refresh_token
                         ELSE calls[c].started.refresh_token}

(* C29: when the token exchange of a refreshAuthCredentials call has        *)
(* failed, the step that took the failure left access_token, refresh_token   *)
(* and expiration_date of the auth object as they were, the call has emitted *)
(* no newAccessToken notification, then and later, and it ends by reporting  *)
(* the failure to its caller, once; while the promise of the Cronofy         *)
(* connector has yet to settle, the failure is what it will settle with.     *)
C29_FailedExchangeLeavesAuth ==
    \A c \in 1..Len(calls) :
        (/\ calls[c].op = "refreshAuthCredentials"
         /\ EventsOfType(c, "exchange") # {}
         /\ calls[c].pc \in {"settle", "done"}
         /\ calls[c].response.err)
            => /\ EventsOfType(c, "notify") = {}
               /\ TokenFields(calls[c].after) = TokenFields(calls[c].before)
               /\ ~calls[c].exchanged
               /\ calls[c].pc = "settle" =>
                     /\ EventsOfType(c, "callback") = {}
                     /\ calls[c].inner = CalledBack(ErrUpstream, "")
               /\ calls[c].pc = "done" =>
                     /\ calls[c].trace[Len(calls[c].trace)].type = "callback"
                     /\ calls[c].trace[Len(calls[c].trace)].err = ErrUpstream
                     /\ Cardinality(EventsOfType(c, "callback")) = 1

C29_Witness ==
    /\ Len(calls) = 1
    /\ calls[1].backend = "cronofy"
    /\ calls[1].op = "refreshAuthCredentials"
    /\ calls[1].pc = "done"
    /\ calls[1].trace = <<ExchangeIssued("rt0"), CalledBack(ErrUpstream, "")>>
    /\ calls[1].response = ExchangeError
    /\ TokenFields(auth) = TokenFields(calls[1].started)

-----------------------------------------------------------------------------
(* Vocabulary of the result claims *)

ListOps == {"listEvents", "listCalendars"}

GetOps == {"getEvent", "getNextEvent", "getCalendar"}

\* the name under which the upstream answer carries its items
ItemsField ==
    IF outcome.backend = "google" THEN "items"
    ELSE IF outcome.op = "listEvents" THEN "events" ELSE "calendars"

\* the upstream answer's item array, empty when the answer has none
UpstreamItems ==
    LET body == IF outcome.backend = "google"
                THEN (IF Has(outcome.answer, "data") THEN outcome.answer.data ELSE NoFields)
                ELSE outcome.answer
    IN  IF Has(body, ItemsField) THEN body[ItemsField] ELSE <<>>

RawRequested == outcome.options.present /\ outcome.options.raw

\* the caller was called back once, without an error
Succeeded ==
    /\ outcome.result.thrown = ""
    /\ Len(outcome.result.callbacks) = 1
    /\ outcome.result.callbacks[1].err = JsNull

Value == outcome.result.callbacks[1].value

\* the list property of the unified list resource
ListField == IF outcome.op = "listEvents" THEN "events" ELSE "calendars"

RequiredFields ==
    IF outcome.op = "listEvents"
    THEN {"id", "calendar_id", "deleted", "recurring", "private", "attendees", "organizer",
          "permissions"}
    ELSE {"id", "name", "provider_name", "readonly", "deleted", "primary"}

\* the required properties that hold text
TextFields == {"id", "calendar_id", "name", "provider_name"}

Present(item, f) == Has(item, f) /\ (f \in TextFields => item[f] # Undefined)

\* the separator of a packed channel identifier
Delimiter == <<":", ":", ":">>

Pack(a, b) == a \o Delimiter \o b

(* C13: listEvents and listCalendars of either connector, answered with      *)
(* items: with options.raw true the caller gets the upstream item array      *)
(* unchanged; with raw false or no options it gets the unified list          *)
(* resource, one item per upstream item, each with every required field.     *)
C13_RawOrUnifiedList ==
    (/\ outcome.op \in ListOps
     /\ Has(outcome, "answer")
     /\ ~outcome.answer.err
     /\ Len(UpstreamItems) > 0)
        => /\ Succeeded
           /\ RawRequested => Value = JsArray(UpstreamItems)
           /\ ~RawRequested =>
                 /\ Value.t = "object"
                 /\ Has(Value.object, ListField)
                 /\ Len(Value.object[ListField]) = Len(UpstreamItems)
                 /\ \A i \in 1..Len(Value.object[ListField]) : \A f \in RequiredFields :
                       Present(Value.object[ListField][i], f)

(* C14: getEvent, getNextEvent and getCalendar with options.raw true hand    *)
(* the caller the upstream payload itself, not a mapped resource.            *)
C14_RawGetVerbatim ==
    (/\ outcome.op \in GetOps
     /\ Has(outcome, "answer")
     /\ ~outcome.answer.err
     /\ Has(outcome.answer, "data")
     /\ RawRequested)
        => /\ Succeeded
           /\ Value = JsObject(outcome.answer.data)

(* C15: a list operation whose upstream answer has no item field or an       *)
(* empty item array succeeds with the empty sequence.                        *)
C15_EmptyListSucceeds ==
    (/\ outcome.op \in ListOps
     /\ Has(outcome, "answer")
     /\ ~outcome.answer.err
     /\ Len(UpstreamItems) = 0)
        => /\ Succeeded
           /\ Value = JsArray(<<>>)

(* C16: when the upstream request of an operation fails, the caller is       *)
(* called back exactly once with the error in the error position and no      *)
(* error in the value position.                                              *)
C16_UpstreamErrorSurfaced ==
    (/\ outcome.op \in ListOps \cup GetOps \cup {"watchEvents", "stopWatch"}
     /\ Has(outcome, "answer")
     /\ outcome.answer.err)
        => /\ outcome.result.thrown = ""
           /\ Len(outcome.result.callbacks) = 1
           /\ outcome.result.callbacks[1].err = JsError(ErrUpstream)
           /\ outcome.result.callbacks[1].value.t # "error"

(* C17: either connector's event mapper returns an event whose attendees is  *)
(* a sequence with one entry per upstream attendee, the empty sequence when  *)
(* the upstream event has no attendees field; it does not throw.             *)
C17_AttendeesAlwaysSequence ==
    outcome.op = "_transformEvent"
        => /\ outcome.mapped.t = "return"
           /\ Has(outcome.mapped.value, "attendees")
           /\ Len(outcome.mapped.value.attendees) =
                 (IF Has(outcome.input, "attendees") THEN Len(outcome.input.attendees)
                  ELSE 0)

(* C18: the Google event mapper sets private to true for visibility private  *)
(* or confidential, to false for default or public, and to true when the     *)
(* visibility is absent or anything else.                                    *)
C18_VisibilityToPrivate ==
    (/\ outcome.op = "_transformEvent"
     /\ outcome.backend = "google")
        => /\ outcome.mapped.t = "return"
           /\ IF Has(outcome.input, "visibility")
              THEN /\ outcome.input.visibility \in {"private", "confidential"}
                         => outcome.mapped.value.private = TRUE
                   /\ outcome.input.visibility \in {"default", "public"}
                         => outcome.mapped.value.private = FALSE
                   /\ outcome.input.visibility \notin
                         {"private", "confidential", "default", "public"}
                         => outcome.mapped.value.private = TRUE
              ELSE outcome.mapped.value.private = TRUE

C18_Witness ==
    /\ outcome.op = "_transformEvent"
    /\ outcome.backend = "google"
    /\ Has(outcome.input, "visibility")
    /\ outcome.input.visibility = "secret"
    /\ outcome.mapped.value.private = TRUE

(* C19: the Google calendar mapper sets readonly to true for accessRole      *)
(* freeBusyReader or reader, to false for writer or owner, and to true when  *)
(* the accessRole is absent or anything else.                                *)
C19_AccessRoleToReadonly ==
    (/\ outcome.op = "_transformCalendar"
     /\ outcome.backend = "google")
        => /\ outcome.mapped.t = "return"
           /\ IF Has(outcome.input, "accessRole")
              THEN /\ outcome.input.accessRole \in {"freeBusyReader", "reader"}
                         => outcome.mapped.value.readonly = TRUE
                   /\ outcome.input.accessRole \in {"writer", "owner"}
                         => outcome.mapped.value.readonly = FALSE
                   /\ outcome.input.accessRole \notin
                         {"freeBusyReader", "reader", "writer", "owner"}
                         => outcome.mapped.value.readonly = TRUE
              ELSE outcome.mapped.value.readonly = TRUE

C19_Witness ==
    /\ outcome.op = "_transformCalendar"
    /\ outcome.backend = "google"
    /\ Has(outcome.input, "accessRole")
    /\ outcome.input.accessRole = "reader"
    /\ outcome.mapped.value.readonly = TRUE

(* C20: on the Google connector, watchEvents answers with a channelId that   *)
(* is the upstream channel id and resource id joined by the delimiter;       *)
(* stopWatch given such a channelId sends the two parts upstream as id and   *)
(* resourceId; given a channelId that does not split in two it fails with a  *)
(* validation error and sends nothing upstream.                              *)
C20_WatchChannelRoundTrip ==
    /\ (/\ outcome.op = "watchEvents"
        /\ Has(outcome, "answer")
        /\ ~outcome.answer.err
        /\ Has(outcome.answer, "data"))
          => /\ Succeeded
             /\ Value.t = "object"
             /\ Has(Value.object, "channelId")
             /\ Value.object.channelId = Pack(outcome.answer.data.id,
                                         outcome.answer.data.resourceId)
    /\ (/\ outcome.op = "stopWatch"
        /\ Has(outcome, "answer")
        /\ Has(outcome.params, "channelId"))
          => IF \E a \in ChannelIds, b \in ResourceIds : outcome.params.channelId = Pack(a, b)
             THEN /\ Len(outcome.sent) = 1
                  /\ outcome.sent[1].t = "object"
                  /\ \E a \in ChannelIds, b \in ResourceIds :
                        /\ outcome.params.channelId = Pack(a, b)
                        /\ outcome.sent[1].object.requestBody = [id |-> a, resourceId |-> b]
             ELSE /\ outcome.sent = <<>>
                  /\ outcome.result.thrown = ErrMissingProperties

\* the URI of the first video entry point of an upstream event, null without one
FirstVideoUri(googleEvent) ==
    LET entryPoints == IF Has(googleEvent, "conferenceData")
                          /\ Has(googleEvent.conferenceData, "entryPoints")
                       THEN googleEvent.conferenceData.entryPoints ELSE <<>>
        videos == {i \in 1..Len(entryPoints) : entryPoints[i].entryPointType = "video"}
    IN  IF videos = {} THEN Null
        ELSE entryPoints[CHOOSE i \in videos : \A j \in videos : i <= j].uri

\* an upstream time record read as the schema says: dateTime, else date
TimeOf(googleEvent, f) ==
    IF ~Has(googleEvent, f) THEN Undefined
    ELSE IF Has(googleEvent[f], "dateTime") THEN googleEvent[f].dateTime
    ELSE IF Has(googleEvent[f], "date") THEN googleEvent[f].date
    ELSE Undefined

\* the name under which each connector registers
ProviderLiteral(backend) == IF backend = "google" THEN "google" ELSE "cronofy"

(* C23: the Google event mapper sets meeting_url to the URI of the first     *)
(* conferencing entry point of type video, and to null when the event has    *)
(* no conference data or no such entry point.                                *)
C23_MeetingUrlFirstVideo ==
    (/\ outcome.op = "_transformEvent"
     /\ outcome.backend = "google")
        => /\ outcome.mapped.t = "return"
           /\ outcome.mapped.value.meeting_url = FirstVideoUri(outcome.input)

(* C24: the Google event mapper sets start from the upstream start record    *)
(* and end from the upstream end record, each as its dateTime when present   *)
(* and else its date; an event whose end differs from its start maps to an   *)
(* end different from its start.                                             *)
C24_StartAndEndMapped ==
    (/\ outcome.op = "_transformEvent"
     /\ outcome.backend = "google")
        => /\ outcome.mapped.t = "return"
           /\ outcome.mapped.value.start = TimeOf(outcome.input, "start")
           /\ outcome.mapped.value.end = TimeOf(outcome.input, "end")
           /\ TimeOf(outcome.input, "start") # TimeOf(outcome.input, "end")
                 => outcome.mapped.value.start # outcome.mapped.value.end

(* C26: every calendar a connector's mapper produces carries the one        *)
(* literal provider_name of that connector, whatever the upstream record     *)
(* holds.                                                                    *)
C26_ProviderNameLiteral ==
    outcome.op = "_transformCalendar"
        => /\ outcome.mapped.t = "return"
           /\ outcome.mapped.value.provider_name = ProviderLiteral(outcome.backend)

(* C25: the maxResults that listEvents and listCalendars of the Google       *)
(* connector send upstream never exceeds 100: a requested value above 100    *)
(* is sent as 100, a value from 0 to 100 as it is, and 100 is sent when the  *)
(* caller gave none.                                                         *)
C25_MaxResultsClamped ==
    (/\ outcome.op \in ListOps \cup {"list request"}
     /\ outcome.backend \in {"google", "googlecal"})
        => /\ Len(outcome.sent) = 1
           /\ outcome.sent[1].t = "object"
           /\ Has(outcome.sent[1].object, "maxResults")
           /\ outcome.sent[1].object.maxResults <= 100
           /\ outcome.sent[1].object.maxResults =
                 (IF ~Has(outcome.params, "maxResults") THEN 100
                  ELSE IF outcome.params.maxResults > 100 THEN 100
                  ELSE outcome.params.maxResults)

====
